---- MODULE Spec2Model ----
(***************************************************************************)
(* A model of the state synchronisation engine of bbgo: the historical     *)
(* sync service (pkg/service/sync.go), the trade table it writes           *)
(* (pkg/service/trade.go, TradeService), the session start-up and the live *)
(* trade-update handlers (pkg/service/trade.go, Environment.Init) and the  *)
(* okex historical queries (pkg/exchange/okex/exchange.go); the active      *)
(* order book (pkg/bbgo/active_book.go); the market data store, the        *)
(* indicators bound to it (pkg/indicator) and the standard indicator set.  *)
(***************************************************************************)
EXTENDS Integers, Sequences, FiniteSets, TLC

(***************************************************************************)
(* Bounds of the model.                                                    *)
(***************************************************************************)
\* trades that execute on the exchange in one behaviour
MaxTrades == 3
\* closed orders that exist on the exchange in one behaviour
MaxOrders == 3
\* live trade-update events the stream delivers in one behaviour
MaxEvents == 2
\* process restarts in one behaviour
MaxRestarts == 1
\* records one historical query returns (sync.go asks for Limit 200, okex
\* serves at most defaultQueryLimit = 100; scaled to the histories above)
PageLimit == 2
\* the fallback start times a caller may pass: 1..MaxFallback
MaxFallback == 2
\* order IDs of the active order book: 1..MaxOrderID
MaxOrderID == 3
\* closed candles of one interval on the exchange: end times 1..MaxCandles
MaxCandles == 4
\* closed-candle events the live stream delivers in one behaviour
MaxLive == 2
\* the orders of one call of CancelOrders
MaxCancel == 2
\* the highest price and average cost of the protection stop loss
MaxCost == 10
\* the cap of an indicator's value history (MaxNumOfEWMA) and the index its
\* truncation keeps from (MaxNumOfEWMATruncateSize), scaled to the candles above
MaxNumOfEWMA == 3
MaxNumOfEWMATruncateSize == 2
\* the cap of the store's window of one interval, scaled likewise
MaxNumOfKLines == 3
\* the Window of every indicator instance
IndicatorWindow == 2
\* const DPeriod int = 3
DPeriod == 3
\* base quantities of a position: -MaxBase..MaxBase
MaxBase == 2
\* mark prices and average costs: 1..MaxPrice
MaxPrice == 3
\* realized P&L: -MaxLoss..1; break thresholds: -MaxLoss..-1
MaxLoss == 3

Symbols == {"BTCUSDT", "ETHUSDT"}

\* "okex" is pkg/exchange/okex; "cursor" is an exchange that honours the
\* uniform contract of the Exchange capability (start strictly after the
\* cursor)
ExchangeNames == {"cursor", "okex"}

FallbackTimes == 1..MaxFallback

VARIABLES
    service,        \* which of the two sync calls this behaviour exercises
    exchange,       \* exchange.Name() of the session
    hasDB,          \* environ.TradeService != nil
    tradeScanTime,  \* environ.tradeScanTime, the fallback start time
    remoteTrades,   \* the trades of the exchange, ID = position
    remoteOrders,   \* the closed orders of the exchange, OrderID = position
    trades,         \* table trades, in gid order
    orders,         \* table orders, in gid order
    pc,             \* where the process is
    synced,         \* symbols whose sync returned nil in this process
    ctxDone,        \* ctx.Done() is closed
    ret,            \* what the last sync call returned
    pending,        \* SyncTrades: the trades still to range over
    recvd,          \* records the insert loop has taken so far, in order
    ordersC,        \* SyncOrders: the order channel's buffer
    ordersClosed,   \* SyncOrders: the order channel is closed
    errC,           \* SyncOrders: the error channel's buffer
    prodLeft,       \* SyncOrders: what the batch producer has yet to send
    Trades,         \* session.Trades, symbol -> list
    nEvents,        \* trade-update events delivered so far
    lastEvent,      \* the last trade-update event delivered
    lastInsert,     \* outcome of the live handler's last insert
    connectedAt,    \* how many trades the exchange had when the stream connected
    nRestarts,      \* restarts so far
    call,           \* the arguments and the start state of the last sync call
    quiet           \* symbol -> its last sync returned nil and nothing happened since

syncVars == <<service, exchange, hasDB, tradeScanTime, remoteTrades, remoteOrders,
              trades, orders, pc, synced, ctxDone, ret, pending, recvd, ordersC,
              ordersClosed, errC, prodLeft, Trades, nEvents, lastEvent, lastInsert,
              connectedAt, nRestarts, call, quiet>>

VARIABLES
    Bids,           \* LocalActiveOrderBook.Bids: OrderID -> order
    Asks,           \* LocalActiveOrderBook.Asks: OrderID -> order
    bookRet,        \* what the last call returned, "none" for Add and Delete
    bookCall        \* the last call, and whether it met the OrderID it was given

bookVars == <<Bids, Asks, bookRet, bookCall>>

VARIABLES
    indicators,     \* StandardIndicatorSet.sma, .ewma, .boll: kind -> key -> instance
    setBound,       \* the instances bound to the set's store
    setCall,        \* the last accessor call on the set: its kind and key
    setRet          \* what that call returned

setVars == <<indicators, setBound, setCall, setRet>>

VARIABLES
    KLineWindows,   \* MarketDataStore: interval -> the window of closed candles
    lastClosedEndTime, \* MarketDataStore: interval -> the high-water mark
    accepted,      \* interval -> every candle the store accepted, none evicted
    subscribers,    \* the indicators bound to the store, by name
    lastPrice,      \* session.lastPrices[symbol]
    mdPhase,        \* where Init is: "prewarm", "live" (Init returned nil), "exit"
    warmed,         \* the intervals whose historical candles are loaded
    nHist,          \* interval -> how many historical candles were fed
    nLive,          \* closed-candle events delivered so far
    lastKLine,      \* the last closed-candle event delivered
    emitted         \* window updates the store emitted in the last step

mdVars == <<KLineWindows, lastClosedEndTime, accepted, subscribers, lastPrice,
            mdPhase,
            warmed, nHist, nLive, lastKLine, emitted>>

VARIABLES
    riskControl,    \* CircuitBreakRiskControl: position, price, threshold, P&L
    isHalted        \* what IsHalted returned for riskControl as it is now

cbVars == <<riskControl, isHalted>>

VARIABLES
    sessions,       \* environ.sessions: name -> the ExchangeSession and its stream
    environ         \* where Init and Connect of the Environment are

envVars == <<sessions, environ>>

VARIABLES
    okexCall,       \* the call of an okex Exchange method that is running
    limiters        \* the capacity left in the two package-level rate limiters

okexVars == <<okexCall, limiters>>

VARIABLES
    stopLoss,       \* the ProtectionStopLoss: its settings, stopLossPrice, stopLossOrder
    slPosition,     \* orderExecutor.Position()
    slCall          \* the last event it handled and the calls it made for it

slVars == <<stopLoss, slPosition, slCall>>

VARIABLES
    series          \* the indicator instance Update is called on, and what it was fed

seriesVars == <<series>>

\* the state a step of the sync service and the session leaves alone
nonSyncVars == <<bookVars, setVars, mdVars, cbVars, envVars, okexVars, slVars, seriesVars>>

\* the state a step of the active order book leaves alone
nonBookVars == <<syncVars, setVars, mdVars, cbVars, envVars, okexVars, slVars, seriesVars>>

\* the state a step of the standard indicator set leaves alone
nonSetVars == <<syncVars, bookVars, mdVars, cbVars, envVars, okexVars, slVars, seriesVars>>

\* the state a step of the market data store and its indicators leaves alone
nonMdVars == <<syncVars, bookVars, setVars, cbVars, envVars, okexVars, slVars, seriesVars>>

\* the state a step of the circuit breaker leaves alone
nonCbVars == <<syncVars, bookVars, setVars, mdVars, envVars, okexVars, slVars, seriesVars>>

\* the state a step of the Environment leaves alone
nonEnvVars == <<syncVars, bookVars, setVars, mdVars, cbVars, okexVars, slVars, seriesVars>>

\* the state a step of the okex exchange leaves alone
nonOkexVars == <<syncVars, bookVars, setVars, mdVars, cbVars, envVars, slVars, seriesVars>>

\* the state an event of the protection stop loss leaves alone
nonSlVars == <<syncVars, bookVars, setVars, mdVars, cbVars, envVars, okexVars, seriesVars>>

\* the state an Update of an indicator leaves alone
nonSeriesVars == <<syncVars, bookVars, setVars, mdVars, cbVars, envVars, okexVars, slVars>>

vars == <<syncVars, bookVars, setVars, mdVars, cbVars, envVars, okexVars, slVars, seriesVars>>

(***************************************************************************)
(* Records and storage.                                                    *)
(***************************************************************************)
NoRecord == [ID |-> 0, Symbol |-> "", Time |-> 0, Exchange |-> ""]

NoCall == [kind |-> "none", Symbol |-> "", queried |-> FALSE, StartTime |-> 0,
           LastID |-> 0, fallback |-> 0, rowsAt |-> 0, remoteAt |-> 0,
           quiet |-> FALSE]

\* SELECT * FROM t WHERE exchange = :exchange AND symbol = :symbol ORDER BY gid ASC
Query(rows, ex, symbol) ==
    SelectSeq(rows, LAMBDA r : r.Exchange = ex /\ r.Symbol = symbol)

\* ... ORDER BY gid DESC LIMIT 1: <<>> is the nil result
QueryLast(rows, ex, symbol) ==
    LET m == Query(rows, ex, symbol)
    IN  IF m = <<>> THEN <<>> ELSE <<m[Len(m)]>>

\* INSERT INTO t (...) VALUES (...): a plain append, no key is checked
Insert(rows, r) == Append(rows, r)

\* the first n elements of s
Take(s, n) == SubSeq(s, 1, IF Len(s) < n THEN Len(s) ELSE n)

(***************************************************************************)
(* The exchange's historical queries.                                      *)
(***************************************************************************)
\* okex: LastTradeID is not sent, the request carries the start time alone,
\* and the start of the time range is inclusive
OkexQueryTrades(remote, symbol, startTime, lastTradeID) ==
    Take(SelectSeq(remote, LAMBDA t : t.Symbol = symbol /\ t.Time >= startTime),
         PageLimit)

\* the contract of the Exchange capability: strictly after the cursor
CursorQueryTrades(remote, symbol, startTime, lastTradeID) ==
    Take(SelectSeq(remote, LAMBDA t : /\ t.Symbol = symbol
                                      /\ t.Time >= startTime
                                      /\ t.ID > lastTradeID),
         PageLimit)

QueryTrades(ex, remote, symbol, startTime, lastTradeID) ==
    IF ex = "okex" THEN OkexQueryTrades(remote, symbol, startTime, lastTradeID)
    ELSE CursorQueryTrades(remote, symbol, startTime, lastTradeID)

\* okex: since is inclusive, only orders later than lastOrderID are returned,
\* sorted ascending
QueryClosedOrders(remote, symbol, since, lastOrderID) ==
    Take(SelectSeq(remote, LAMBDA o : /\ o.Symbol = symbol
                                      /\ o.Time >= since
                                      /\ o.ID > lastOrderID),
         PageLimit)

\* types.ExchangeBatchProcessor.BatchQueryTrades: pages are queried from the
\* resume point, every record of a consumed page is kept in arrival order, and
\* the cursor moves strictly forward with each consumed page
RECURSIVE BatchQueryTrades(_, _, _, _, _, _)
BatchQueryTrades(ex, remote, symbol, startTime, lastTradeID, acc) ==
    LET page == QueryTrades(ex, remote, symbol, startTime, lastTradeID)
    IN  IF page = <<>> THEN acc
        ELSE IF page[Len(page)].ID <= lastTradeID THEN acc
        ELSE BatchQueryTrades(ex, remote, symbol, page[Len(page)].Time,
                              page[Len(page)].ID, acc \o page)

\* types.ExchangeBatchProcessor.BatchQueryClosedOrders: everything the producer
\* will send on the order channel if no query fails
RECURSIVE BatchQueryClosedOrders(_, _, _, _, _)
BatchQueryClosedOrders(remote, symbol, startTime, lastOrderID, acc) ==
    LET page == QueryClosedOrders(remote, symbol, startTime, lastOrderID)
    IN  IF page = <<>> THEN acc
        ELSE BatchQueryClosedOrders(remote, symbol, page[Len(page)].Time,
                                    page[Len(page)].ID, acc \o page)

(***************************************************************************)
(* The resume point of SyncTrades and SyncOrders.                          *)
(***************************************************************************)
\* ResumePoint without "lastID = last.ID": the cursor stays 0
ResumePointNoCursor(last, startTime) ==
    IF last # <<>>
    THEN [LastID |-> 0, StartTime |-> last[1].Time]
    ELSE [LastID |-> 0, StartTime |-> startTime]

\* ResumePoint without "startTime = last.Time": the fallback is kept
ResumePointKeepFallback(last, startTime) ==
    IF last # <<>>
    THEN [LastID |-> last[1].ID, StartTime |-> startTime]
    ELSE [LastID |-> 0, StartTime |-> startTime]

\* var lastID = 0; if last != nil { lastID = last.ID; startTime = last.Time }
ResumePoint(last, startTime) ==
    IF last # <<>>
    THEN [LastID |-> last[1].ID, StartTime |-> last[1].Time]
    ELSE [LastID |-> 0, StartTime |-> startTime]

NewCall(kind, symbol, queried, rp, rows, remote) ==
    [kind |-> kind, Symbol |-> symbol, queried |-> queried,
     StartTime |-> rp.StartTime, LastID |-> rp.LastID,
     fallback |-> tradeScanTime, rowsAt |-> Len(rows),
     remoteAt |-> Len(remote), quiet |-> quiet[symbol]]

InCall == pc \in {"st.insert", "so.recv", "so.select", "so.insert"}

(***************************************************************************)
(* The exchange.                                                           *)
(***************************************************************************)
\* a trade executes on the exchange: the next ID, at the next tick. A trade
\* that executes while the process is down is one that executes before the
\* next process's first sync; the symbols are interchangeable, so the first
\* trade of a behaviour is taken to be the first symbol's
RemoteTrade(symbol) ==
    /\ service = "trades"
    /\ ~InCall
    /\ pc # "exit"
    /\ Len(remoteTrades) < MaxTrades
    /\ remoteTrades = <<>> => symbol = "BTCUSDT"
    /\ remoteTrades' = Append(remoteTrades,
          [ID |-> Len(remoteTrades) + 1, Symbol |-> symbol,
           Time |-> Len(remoteTrades) + 1, Exchange |-> exchange])
    /\ quiet' = [s \in Symbols |-> FALSE]
    /\ UNCHANGED <<service, exchange, hasDB, tradeScanTime, remoteOrders, trades,
                   orders, pc, synced, ctxDone, ret, pending, recvd, ordersC,
                   ordersClosed, errC, prodLeft, Trades, nEvents, lastEvent,
                   lastInsert, connectedAt, nRestarts, call>>
    /\ UNCHANGED nonSyncVars

(***************************************************************************)
(* SyncService.SyncTrades, as Environment.Init calls it for a symbol.      *)
(***************************************************************************)
\* the call returns err: Init returns it and the process goes no further
ReturnErr(e) ==
    /\ ret' = e
    /\ pc' = "exit"
    /\ UNCHANGED <<synced, Trades, quiet>>

\* the call returns nil; Init then loads the symbol's trades from the table
ReturnNilTrades(symbol, rows) ==
    /\ ret' = "nil"
    /\ pc' = "init"
    /\ synced' = synced \cup {symbol}
    /\ Trades' = [Trades EXCEPT ![symbol] = Query(rows, exchange, symbol)]
    /\ quiet' = [quiet EXCEPT ![symbol] = TRUE]

\* QueryLast, the resume point, BatchQueryTrades
SyncTradesBegin(symbol) ==
    /\ service = "trades"
    /\ pc = "init"
    /\ hasDB
    /\ symbol \notin synced
    /\ recvd' = <<>>
    /\ LET rp == ResumePoint(QueryLast(trades, exchange, symbol), tradeScanTime)
           batch == BatchQueryTrades(exchange, remoteTrades, symbol,
                                     rp.StartTime, rp.LastID, <<>>)
           issued == NewCall("trades", symbol, TRUE, rp, trades, remoteTrades)
       IN  \/ /\ ReturnErr("queryLastErr")
              /\ call' = NewCall("trades", symbol, FALSE,
                                 [LastID |-> 0, StartTime |-> 0], trades, remoteTrades)
              /\ pending' = <<>>
           \/ /\ ctxDone
              /\ ReturnErr("ctxErr")
              /\ call' = issued
              /\ pending' = <<>>
           \/ /\ ~ctxDone
              /\ ReturnErr("queryErr")
              /\ call' = issued
              /\ pending' = <<>>
           \/ /\ ~ctxDone
              /\ batch # <<>>
              /\ call' = issued
              /\ pending' = batch
              /\ pc' = "st.insert"
              /\ UNCHANGED <<ret, synced, Trades, quiet>>
           \/ /\ ~ctxDone
              /\ batch = <<>>
              /\ call' = issued
              /\ pending' = <<>>
              /\ ReturnNilTrades(symbol, trades)
    /\ UNCHANGED <<service, exchange, hasDB, tradeScanTime, remoteTrades,
                   remoteOrders, trades, orders, ctxDone, ordersC, ordersClosed,
                   errC, prodLeft, nEvents, lastEvent, lastInsert, connectedAt, nRestarts>>
    /\ UNCHANGED nonSyncVars

\* SyncTradesInsert with "continue" for "return err": the failing record is
\* skipped, the loop goes on and the error is returned at its end
SyncTradesInsertKeepGoing ==
    /\ pc = "st.insert"
    /\ pending # <<>>
    /\ recvd' = Append(recvd, Head(pending))
    /\ pending' = Tail(pending)
    /\ \/ /\ trades' = Insert(trades, Head(pending))
          /\ IF Tail(pending) # <<>>
             THEN UNCHANGED <<pc, ret, synced, Trades, quiet>>
             ELSE IF ret = "insertErr"
                  THEN ReturnErr("insertErr")
                  ELSE ReturnNilTrades(call.Symbol, trades')
       \/ /\ UNCHANGED trades
          /\ IF Tail(pending) # <<>>
             THEN ret' = "insertErr" /\ UNCHANGED <<pc, synced, Trades, quiet>>
             ELSE ReturnErr("insertErr")
    /\ UNCHANGED <<service, exchange, hasDB, tradeScanTime, remoteTrades,
                   remoteOrders, orders, ctxDone, ordersC, ordersClosed, errC,
                   prodLeft, nEvents, lastEvent, lastInsert, connectedAt, nRestarts, call>>
    /\ UNCHANGED nonSyncVars

\* for _, trade := range trades { if err := Insert(trade); err != nil { return err } }
SyncTradesInsert ==
    /\ pc = "st.insert"
    /\ pending # <<>>
    /\ recvd' = Append(recvd, Head(pending))
    /\ \/ /\ trades' = Insert(trades, Head(pending))
          /\ pending' = Tail(pending)
          /\ UNCHANGED call
          /\ IF Tail(pending) = <<>>
             THEN ReturnNilTrades(call.Symbol, trades')
             ELSE UNCHANGED <<pc, ret, synced, Trades, quiet>>
       \/ /\ ReturnErr("insertErr")
          /\ UNCHANGED <<trades, pending, call>>
    /\ UNCHANGED <<service, exchange, hasDB, tradeScanTime, remoteTrades,
                   remoteOrders, orders, ctxDone, ordersC, ordersClosed, errC,
                   prodLeft, nEvents, lastEvent, lastInsert, connectedAt, nRestarts>>
    /\ UNCHANGED nonSyncVars

(***************************************************************************)
(* SyncService.SyncOrders and the batch producer that feeds its channels.  *)
(***************************************************************************)
\* an order is closed on the exchange: the next OrderID, at the next tick
\* (while the process runs, the first order in the first symbol, as for
\* RemoteTrade)
RemoteOrder(symbol) ==
    /\ service = "orders"
    /\ ~InCall
    /\ pc # "exit"
    /\ Len(remoteOrders) < MaxOrders
    /\ remoteOrders = <<>> => symbol = "BTCUSDT"
    /\ remoteOrders' = Append(remoteOrders,
          [ID |-> Len(remoteOrders) + 1, Symbol |-> symbol,
           Time |-> Len(remoteOrders) + 1, Exchange |-> exchange])
    /\ UNCHANGED <<service, exchange, hasDB, tradeScanTime, remoteTrades, trades,
                   orders, pc, synced, ctxDone, ret, pending, recvd, ordersC,
                   ordersClosed, errC, prodLeft, Trades, nEvents, lastEvent,
                   lastInsert, connectedAt, nRestarts, call, quiet>>
    /\ UNCHANGED nonSyncVars

ReturnNilOrders(symbol) ==
    /\ ret' = "nil"
    /\ pc' = "init"
    /\ synced' = synced \cup {symbol}
    /\ UNCHANGED <<Trades, quiet>>

\* QueryLast, the resume point, BatchQueryClosedOrders (which starts the producer)
SyncOrdersBegin(symbol) ==
    /\ service = "orders"
    /\ pc = "init"
    /\ symbol \notin synced
    /\ recvd' = <<>>
    /\ LET rp == ResumePoint(QueryLast(orders, exchange, symbol), tradeScanTime)
       IN  \/ /\ ReturnErr("queryLastErr")
              /\ call' = NewCall("orders", symbol, FALSE,
                                 [LastID |-> 0, StartTime |-> 0], orders, remoteOrders)
              /\ UNCHANGED <<ordersC, ordersClosed, errC, prodLeft>>
           \/ /\ call' = NewCall("orders", symbol, TRUE, rp, orders, remoteOrders)
              /\ ordersC' = <<>>
              /\ ordersClosed' = FALSE
              /\ errC' = <<>>
              /\ prodLeft' = BatchQueryClosedOrders(remoteOrders, symbol,
                                                    rp.StartTime, rp.LastID, <<>>)
              /\ pc' = "so.recv"
              /\ UNCHANGED <<ret, synced, Trades, quiet>>
    /\ UNCHANGED <<service, exchange, hasDB, tradeScanTime, remoteTrades,
                   remoteOrders, trades, orders, ctxDone, pending, nEvents,
                   lastEvent, lastInsert, connectedAt, nRestarts>>
    /\ UNCHANGED nonSyncVars

InSyncOrders == pc \in {"so.recv", "so.select", "so.insert"}

\* the producer: c <- o
ProducerSend ==
    /\ InSyncOrders
    /\ ~ordersClosed
    /\ prodLeft # <<>>
    /\ ordersC' = Append(ordersC, Head(prodLeft))
    /\ prodLeft' = Tail(prodLeft)
    /\ UNCHANGED <<service, exchange, hasDB, tradeScanTime, remoteTrades,
                   remoteOrders, trades, orders, pc, synced, ctxDone, ret, pending,
                   recvd, ordersClosed, errC, Trades, nEvents, lastEvent,
                   lastInsert, connectedAt, nRestarts, call, quiet>>
    /\ UNCHANGED nonSyncVars

\* the producer: a query fails (or its rate-limit wait is cancelled):
\* errC <- err, and the order channel is closed as the producer returns
ProducerFail ==
    /\ InSyncOrders
    /\ ~ordersClosed
    /\ errC' = Append(errC, "queryErr")
    /\ ordersClosed' = TRUE
    /\ UNCHANGED <<service, exchange, hasDB, tradeScanTime, remoteTrades,
                   remoteOrders, trades, orders, pc, synced, ctxDone, ret, pending,
                   recvd, ordersC, prodLeft, Trades, nEvents, lastEvent,
                   lastInsert, connectedAt, nRestarts, call, quiet>>
    /\ UNCHANGED nonSyncVars

\* the producer: the history is exhausted, the order channel is closed
ProducerDone ==
    /\ InSyncOrders
    /\ ~ordersClosed
    /\ prodLeft = <<>>
    /\ ordersClosed' = TRUE
    /\ UNCHANGED <<service, exchange, hasDB, tradeScanTime, remoteTrades,
                   remoteOrders, trades, orders, pc, synced, ctxDone, ret, pending,
                   recvd, ordersC, errC, prodLeft, Trades, nEvents, lastEvent,
                   lastInsert, connectedAt, nRestarts, call, quiet>>
    /\ UNCHANGED nonSyncVars

\* for order := range ordersC: the next order, or the end of the loop and
\* return nil once the channel is closed and drained
SyncOrdersRecv ==
    /\ pc = "so.recv"
    /\ \/ /\ ordersC # <<>>
          /\ recvd' = Append(recvd, Head(ordersC))
          /\ ordersC' = Tail(ordersC)
          /\ pc' = "so.select"
          /\ UNCHANGED <<ret, synced, Trades, quiet>>
       \/ /\ ordersC = <<>>
          /\ ordersClosed
          /\ ReturnNilOrders(call.Symbol)
          /\ UNCHANGED <<recvd, ordersC>>
    /\ UNCHANGED <<service, exchange, hasDB, tradeScanTime, remoteTrades,
                   remoteOrders, trades, orders, ctxDone, pending, ordersClosed,
                   errC, prodLeft, nEvents, lastEvent, lastInsert, connectedAt, nRestarts, call>>
    /\ UNCHANGED nonSyncVars

\* SyncOrdersSelect without "case err := <-errC": only the cancellation is checked
SyncOrdersSelectIgnoreErr ==
    /\ pc = "so.select"
    /\ \/ /\ ctxDone
          /\ ReturnErr("ctxErr")
       \/ /\ ~ctxDone
          /\ pc' = "so.insert"
          /\ UNCHANGED <<ret, synced, Trades, quiet>>
    /\ UNCHANGED <<service, exchange, hasDB, tradeScanTime, remoteTrades,
                   remoteOrders, trades, orders, ctxDone, pending, recvd, ordersC,
                   ordersClosed, errC, prodLeft, nEvents, lastEvent, lastInsert,
                   connectedAt, nRestarts, call>>
    /\ UNCHANGED nonSyncVars

\* select { case <-ctx.Done(): return ctx.Err(); case err := <-errC: return err;
\* default: }: one of the ready cases, picked by the runtime; default only
\* when none is ready
SyncOrdersSelect ==
    /\ pc = "so.select"
    /\ \/ /\ ctxDone
          /\ ReturnErr("ctxErr")
          /\ UNCHANGED errC
       \/ /\ errC # <<>>
          /\ ReturnErr(Head(errC))
          /\ errC' = Tail(errC)
       \/ /\ ~ctxDone
          /\ errC = <<>>
          /\ pc' = "so.insert"
          /\ UNCHANGED <<ret, synced, Trades, quiet, errC>>
    /\ UNCHANGED <<service, exchange, hasDB, tradeScanTime, remoteTrades,
                   remoteOrders, trades, orders, ctxDone, pending, recvd, ordersC,
                   ordersClosed, prodLeft, nEvents, lastEvent, lastInsert,
                   connectedAt, nRestarts, call>>
    /\ UNCHANGED nonSyncVars

\* if err := s.OrderService.Insert(order); err != nil { return err }
SyncOrdersInsert ==
    /\ pc = "so.insert"
    /\ \/ /\ orders' = Insert(orders, recvd[Len(recvd)])
          /\ pc' = "so.recv"
          /\ UNCHANGED <<ret, synced, Trades, quiet>>
       \/ /\ ReturnErr("insertErr")
          /\ UNCHANGED orders
    /\ UNCHANGED <<service, exchange, hasDB, tradeScanTime, remoteTrades,
                   remoteOrders, trades, ctxDone, pending, recvd, ordersC,
                   ordersClosed, errC, prodLeft, nEvents, lastEvent, lastInsert,
                   connectedAt, nRestarts, call>>
    /\ UNCHANGED nonSyncVars

(***************************************************************************)
(* The session: the end of Init, the stream, the process.                  *)
(***************************************************************************)
\* Init has synced every loaded symbol and registered its handlers, and
\* returns nil: the sync calls and their locals are gone.
\* Environment.Connect then connects the stream
Connect ==
    /\ service = "trades"
    /\ pc = "init"
    /\ hasDB => synced = Symbols
    /\ pc' = "streaming"
    /\ connectedAt' = Len(remoteTrades)
    /\ ret' = "none"
    /\ recvd' = <<>>
    /\ call' = NoCall
    /\ UNCHANGED <<service, exchange, hasDB, tradeScanTime, remoteTrades,
                   remoteOrders, trades, orders, synced, ctxDone, pending,
                   ordersC, ordersClosed, errC, prodLeft, Trades, nEvents,
                   lastEvent, lastInsert, nRestarts, quiet>>
    /\ UNCHANGED nonSyncVars

\* TradeUpdate as one handler that returns when the insert fails: the trade
\* is not appended to session.Trades
TradeUpdateDropOnError(trade) ==
    /\ pc = "streaming"
    /\ nEvents < MaxEvents
    /\ trade.ID > connectedAt
    /\ nEvents' = nEvents + 1
    /\ lastEvent' = trade
    /\ \/ /\ hasDB
          /\ trades' = Insert(trades, trade)
          /\ lastInsert' = "ok"
          /\ Trades' = [Trades EXCEPT ![trade.Symbol] = Append(@, trade)]
       \/ /\ hasDB
          /\ lastInsert' = "failed"
          /\ UNCHANGED <<trades, Trades>>
       \/ /\ ~hasDB
          /\ lastInsert' = "nodb"
          /\ Trades' = [Trades EXCEPT ![trade.Symbol] = Append(@, trade)]
          /\ UNCHANGED trades
    /\ quiet' = [s \in Symbols |-> FALSE]
    /\ UNCHANGED <<service, exchange, hasDB, tradeScanTime, remoteTrades,
                   remoteOrders, orders, pc, synced, ctxDone, ret, pending, recvd,
                   ordersC, ordersClosed, errC, prodLeft, connectedAt, nRestarts, call>>
    /\ UNCHANGED nonSyncVars

\* the two OnTradeUpdate handlers of Init, in registration order: the insert
\* whose error is logged, then the append to session.Trades. The stream
\* reports trades that executed after it connected, in any order, and may
\* report one again or never
TradeUpdate(trade) ==
    /\ pc = "streaming"
    /\ nEvents < MaxEvents
    /\ trade.ID > connectedAt
    /\ nEvents' = nEvents + 1
    /\ lastEvent' = trade
    /\ \/ /\ hasDB
          /\ trades' = Insert(trades, trade)
          /\ lastInsert' = "ok"
       \/ /\ hasDB
          /\ lastInsert' = "failed"
          /\ UNCHANGED trades
       \/ /\ ~hasDB
          /\ lastInsert' = "nodb"
          /\ UNCHANGED trades
    /\ Trades' = [Trades EXCEPT ![trade.Symbol] = Append(@, trade)]
    /\ quiet' = [s \in Symbols |-> FALSE]
    /\ UNCHANGED <<service, exchange, hasDB, tradeScanTime, remoteTrades,
                   remoteOrders, orders, pc, synced, ctxDone, ret, pending, recvd,
                   ordersC, ordersClosed, errC, prodLeft, connectedAt, nRestarts, call>>
    /\ UNCHANGED nonSyncVars

\* the context passed to Init is cancelled, while a sync call runs or is
\* still to come (the sync calls are where this model reads the context)
Cancel ==
    /\ InCall \/ (pc = "init" /\ synced # Symbols)
    /\ ~ctxDone
    /\ ctxDone' = TRUE
    /\ UNCHANGED <<service, exchange, hasDB, tradeScanTime, remoteTrades,
                   remoteOrders, trades, orders, pc, synced, ret, pending, recvd,
                   ordersC, ordersClosed, errC, prodLeft, Trades, nEvents,
                   lastEvent, lastInsert, connectedAt, nRestarts, call, quiet>>
    /\ UNCHANGED nonSyncVars

\* the process ends at any point and a new one starts: the tables stay, the
\* memory of the process is that of NewEnvironment and NewExchangeSession
Restart ==
    /\ nRestarts < MaxRestarts
    /\ nRestarts' = nRestarts + 1
    /\ \E t \in FallbackTimes : t >= tradeScanTime /\ tradeScanTime' = t
    /\ pc' = "init"
    /\ synced' = {}
    /\ ctxDone' = FALSE
    /\ ret' = "none"
    /\ pending' = <<>>
    /\ recvd' = <<>>
    /\ ordersC' = <<>>
    /\ ordersClosed' = FALSE
    /\ errC' = <<>>
    /\ prodLeft' = <<>>
    /\ Trades' = [s \in Symbols |-> <<>>]
    /\ call' = NoCall
    /\ lastEvent' = NoRecord
    /\ lastInsert' = "none"
    /\ connectedAt' = 0
    /\ UNCHANGED <<service, exchange, hasDB, remoteTrades, remoteOrders, trades,
                   orders, nEvents, quiet>>
    /\ UNCHANGED nonSyncVars

(***************************************************************************)
(* The active order book: LocalActiveOrderBook over two SyncOrderMaps.     *)
(***************************************************************************)
OrderIDs == 1..MaxOrderID

Sides == {"BUY", "SELL"}

\* OrderStatusFilled and one status that is not
Statuses == {"NEW", "FILLED"}

OrderInputs == [OrderID : OrderIDs, Side : Sides, Status : Statuses]

\* types.NewSyncOrderMap()
NewSyncOrderMap == [id \in {} |-> [OrderID |-> 0, Side |-> "", Status |-> ""]]

\* SyncOrderMap.Add: m.orders[o.OrderID] = o
SyncOrderMapAdd(m, o) ==
    [id \in DOMAIN m \cup {o.OrderID} |-> IF id = o.OrderID THEN o ELSE m[id]]

\* SyncOrderMap.Delete: delete(m.orders, orderID), a no-op for an absent key
SyncOrderMapDelete(m, orderID) ==
    [id \in DOMAIN m \ {orderID} |-> m[id]]

\* SyncOrderMap.AnyFilled returns one of these, whichever the iteration meets
FilledIn(m) == {id \in DOMAIN m : m[id].Status = "FILLED"}

\* for _, order := range orders { switch order.Side { ... } }
RECURSIVE AddAll(_, _)
AddAll(book, os) ==
    IF os = <<>> THEN book
    ELSE LET order == Head(os)
             next == IF order.Side = "BUY"
                     THEN [book EXCEPT !.Bids = SyncOrderMapAdd(@, order)]
                     ELSE IF order.Side = "SELL"
                     THEN [book EXCEPT !.Asks = SyncOrderMapAdd(@, order)]
                     ELSE book
         IN  AddAll(next, Tail(os))

\* the mapping an order is routed to by its side
SideOf(book, order) == IF order.Side = "BUY" THEN book.Bids ELSE book.Asks

BookNow == [Bids |-> Bids, Asks |-> Asks]

\* LocalActiveOrderBook.Add(orders ...types.Order)
Add(os) ==
    /\ LET book == AddAll(BookNow, os)
       IN  /\ Bids' = book.Bids
           /\ Asks' = book.Asks
    /\ bookRet' = "none"
    /\ bookCall' = IF \E i \in DOMAIN os : os[i].OrderID \in DOMAIN SideOf(BookNow, os[i])
                   THEN "AddPresent" ELSE "Add"
    /\ UNCHANGED nonBookVars

\* Delete that looks on the other side when the OrderID is not on the side
\* of the order
DeleteFromEitherSide(book, order) ==
    IF order.OrderID \in DOMAIN SideOf(book, order)
    THEN IF order.Side = "BUY"
         THEN [book EXCEPT !.Bids = SyncOrderMapDelete(@, order.OrderID)]
         ELSE [book EXCEPT !.Asks = SyncOrderMapDelete(@, order.OrderID)]
    ELSE IF order.Side = "BUY"
         THEN [book EXCEPT !.Asks = SyncOrderMapDelete(@, order.OrderID)]
         ELSE [book EXCEPT !.Bids = SyncOrderMapDelete(@, order.OrderID)]

\* switch order.Side { case buy: b.Bids.Delete(order.OrderID);
\* case sell: b.Asks.Delete(order.OrderID) }
DeleteFrom(book, order) ==
    IF order.Side = "BUY"
    THEN [book EXCEPT !.Bids = SyncOrderMapDelete(@, order.OrderID)]
    ELSE IF order.Side = "SELL"
    THEN [book EXCEPT !.Asks = SyncOrderMapDelete(@, order.OrderID)]
    ELSE book

\* LocalActiveOrderBook.Delete(order)
Delete(order) ==
    /\ LET book == DeleteFrom(BookNow, order)
       IN  /\ Bids' = book.Bids
           /\ Asks' = book.Asks
    /\ bookRet' = "none"
    /\ bookCall' = IF order.OrderID \in DOMAIN Bids \cup DOMAIN Asks
                   THEN "Delete" ELSE "DeleteAbsent"
    /\ UNCHANGED nonBookVars

\* WriteOff that deletes every counter-side order flagged filled
WriteOffAllFilled(order) ==
    /\ IF order.Status # "FILLED"
       THEN bookRet' = "false" /\ UNCHANGED <<Bids, Asks>>
       ELSE IF order.Side = "SELL" /\ FilledIn(Bids) # {}
       THEN /\ Bids' = [id \in DOMAIN Bids \ FilledIn(Bids) |-> Bids[id]]
            /\ Asks' = SyncOrderMapDelete(Asks, order.OrderID)
            /\ bookRet' = "true"
       ELSE IF order.Side = "BUY" /\ FilledIn(Asks) # {}
       THEN /\ Asks' = [id \in DOMAIN Asks \ FilledIn(Asks) |-> Asks[id]]
            /\ Bids' = SyncOrderMapDelete(Bids, order.OrderID)
            /\ bookRet' = "true"
       ELSE bookRet' = "false" /\ UNCHANGED <<Bids, Asks>>
    /\ bookCall' = "WriteOff"
    /\ UNCHANGED nonBookVars

\* WriteOff that deletes the triggering order before it looks for the
\* counter-side order
WriteOffDropTrigger(order) ==
    /\ IF order.Status # "FILLED"
       THEN bookRet' = "false" /\ UNCHANGED <<Bids, Asks>>
       ELSE IF order.Side = "SELL"
       THEN /\ Asks' = SyncOrderMapDelete(Asks, order.OrderID)
            /\ IF FilledIn(Bids) # {}
               THEN /\ \E id \in FilledIn(Bids) : Bids' = SyncOrderMapDelete(Bids, id)
                    /\ bookRet' = "true"
               ELSE bookRet' = "false" /\ UNCHANGED Bids
       ELSE /\ Bids' = SyncOrderMapDelete(Bids, order.OrderID)
            /\ IF FilledIn(Asks) # {}
               THEN /\ \E id \in FilledIn(Asks) : Asks' = SyncOrderMapDelete(Asks, id)
                    /\ bookRet' = "true"
               ELSE bookRet' = "false" /\ UNCHANGED Asks
    /\ bookCall' = "WriteOff"
    /\ UNCHANGED nonBookVars

\* LocalActiveOrderBook.WriteOff(order)
WriteOff(order) ==
    /\ IF order.Status # "FILLED"
       THEN bookRet' = "false" /\ UNCHANGED <<Bids, Asks>>
       ELSE IF order.Side = "SELL" /\ FilledIn(Bids) # {}
       THEN /\ \E id \in FilledIn(Bids) : Bids' = SyncOrderMapDelete(Bids, id)
            /\ Asks' = SyncOrderMapDelete(Asks, order.OrderID)
            /\ bookRet' = "true"
       ELSE IF order.Side = "BUY" /\ FilledIn(Asks) # {}
       THEN /\ \E id \in FilledIn(Asks) : Asks' = SyncOrderMapDelete(Asks, id)
            /\ Bids' = SyncOrderMapDelete(Bids, order.OrderID)
            /\ bookRet' = "true"
       ELSE bookRet' = "false" /\ UNCHANGED <<Bids, Asks>>
    /\ bookCall' = "WriteOff"
    /\ UNCHANGED nonBookVars

\* NewLocalActiveOrderBook()
NewLocalActiveOrderBook ==
    /\ Bids = NewSyncOrderMap
    /\ Asks = NewSyncOrderMap
    /\ bookRet = "none"
    /\ bookCall = "none"

(***************************************************************************)
(* The indicators of pkg/indicator. A candle is [Interval, EndTime]; the   *)
(* number an Update is given is written as the end time of the candle it   *)
(* was read from, and a value stands for the candle whose Update pushed it *)
(* (0 is the literal 0 RMA pushes while it warms up). fed lists every      *)
(* Update call of the instance, in order.                                  *)
(***************************************************************************)
\* two of types.SupportedIntervals
Intervals == {"1m", "5m"}

IndicatorNames ==
    {"VIDYA", "OBV", "CA", "TMA", "ZLEMA", "ATR", "CCI", "DEMA", "STOCH", "RMA"}

\* inc.Interval of every instance
IndicatorInterval == "1m"

\* s = s[MaxNumOfEWMATruncateSize-1:] when len(s) > MaxNumOfEWMA
Truncate(s) ==
    IF Len(s) > MaxNumOfEWMA THEN SubSeq(s, MaxNumOfEWMATruncateSize, Len(s)) ELSE s

\* the zero value of each indicator struct
NewIndicatorState(name) ==
    [Values |-> <<>>,      \* Values; K of STOCH; the values of RMA, s2 and zlema
     input |-> <<>>,       \* VIDYA.input, ZLEMA.data, CCI.Input, STOCH.HighValues
     aux |-> <<>>,         \* CCI.TypicalPrice, TMA.s1, DEMA.a1, ATR.PercentageVolatility
     started |-> FALSE,    \* ATR.RMA, TMA.s1, ZLEMA.zlema != nil
     counter |-> 0,        \* RMA.counter, CA.length
     EndTime |-> 0,        \* EndTime, 0 is zeroTime
     fed |-> <<>>,
     notified |-> 0]       \* window updates of the instance's interval so far

\* VIDYA.Update
VIDYAUpdate(st, x) ==
    IF Len(st.Values) = 0
    THEN [st EXCEPT !.Values = Append(@, x), !.input = Append(@, x),
                    !.fed = Append(@, x)]
    ELSE [st EXCEPT !.input = Truncate(Append(@, x)),
                    !.Values = Truncate(Append(@, x)),
                    !.fed = Append(@, x)]

\* OBV.Update: no truncation
OBVUpdate(st, x) ==
    [st EXCEPT !.Values = Append(@, x), !.fed = Append(@, x)]

\* CA.Update
CAUpdate(st, x) ==
    [st EXCEPT !.counter = @ + 1, !.Values = Truncate(Append(@, x)),
               !.fed = Append(@, x)]

\* TMA.Update: s1.Update(value); s2.Update(s1.Last()), each SMA pushing one
\* value into its capped history
TMAUpdate(st, x) ==
    [st EXCEPT !.started = TRUE, !.aux = Truncate(Append(@, x)),
               !.Values = Truncate(Append(@, x)), !.fed = Append(@, x)]

\* inc.lag = int((float64(inc.Window)-1.)/2. + 0.5)
Lag == IndicatorWindow \div 2

\* ZLEMA.Update: the EWMA is made anew while lag is 0
ZLEMAUpdate(st, x) ==
    LET fresh == Lag = 0 \/ ~st.started
        vals == IF fresh THEN <<>> ELSE st.Values
        data == Truncate(Append(st.input, x))
    IN  [st EXCEPT !.started = TRUE, !.input = data,
                   !.Values = IF Lag >= Len(data) THEN vals
                              ELSE Truncate(Append(vals, x)),
                   !.fed = Append(@, x)]

\* RMA.Update: a 0 while counter < Window, then tmp; no truncation
RMAUpdate(st, x) ==
    [st EXCEPT !.counter = @ + 1,
               !.Values = Append(@, IF st.counter + 1 < IndicatorWindow THEN 0 ELSE x),
               !.fed = Append(@, x)]

\* ATR.Update: the first call makes the RMA and returns; later calls feed the
\* RMA (inc.RMA.Update) and push to PercentageVolatility
ATRUpdate(st, x) ==
    IF ~st.started
    THEN [st EXCEPT !.started = TRUE, !.fed = Append(@, x)]
    ELSE [st EXCEPT !.counter = @ + 1,
                    !.Values = Append(@, IF st.counter + 1 < IndicatorWindow
                                         THEN 0 ELSE x),
                    !.aux = Append(@, x),
                    !.fed = Append(@, x)]

\* CCI.Update
CCIUpdate(st, x) ==
    IF Len(st.aux) = 0
    THEN [st EXCEPT !.aux = Append(@, x), !.input = Append(@, x),
                    !.fed = Append(@, x)]
    ELSE LET tp0 == IF Len(st.aux) > MaxNumOfEWMA
                    THEN SubSeq(st.aux, MaxNumOfEWMATruncateSize, Len(st.aux))
                    ELSE st.aux
             in0 == IF Len(st.aux) > MaxNumOfEWMA
                    THEN SubSeq(st.input, MaxNumOfEWMATruncateSize, Len(st.input))
                    ELSE st.input
             in1 == Append(in0, x)
         IN  [st EXCEPT !.aux = Append(tp0, x), !.input = in1,
                        !.Values = IF Len(in1) < IndicatorWindow THEN @
                                   ELSE Truncate(Append(@, x)),
                        !.fed = Append(@, x)]

\* DEMA.Update: a1 and a2 are made while Values is empty
DEMAUpdate(st, x) ==
    [st EXCEPT !.started = TRUE,
               !.aux = Truncate(Append(IF Len(st.Values) = 0 THEN <<>> ELSE @, x)),
               !.Values = Truncate(Append(@, x)),
               !.fed = Append(@, x)]

\* STOCH.Update: HighValues, LowValues, K and D each gain one; no truncation
STOCHUpdate(st, x) ==
    [st EXCEPT !.input = Append(@, x), !.Values = Append(@, x),
               !.fed = Append(@, x)]

Update(name, st, x) ==
    CASE name = "VIDYA" -> VIDYAUpdate(st, x)
      [] name = "OBV" -> OBVUpdate(st, x)
      [] name = "CA" -> CAUpdate(st, x)
      [] name = "TMA" -> TMAUpdate(st, x)
      [] name = "ZLEMA" -> ZLEMAUpdate(st, x)
      [] name = "ATR" -> ATRUpdate(st, x)
      [] name = "CCI" -> CCIUpdate(st, x)
      [] name = "DEMA" -> DEMAUpdate(st, x)
      [] name = "STOCH" -> STOCHUpdate(st, x)
      [] name = "RMA" -> RMAUpdate(st, x)

\* for _, k := range kLines { inc.Update(...) }
RECURSIVE UpdateAll(_, _, _)
UpdateAll(name, st, kLines) ==
    IF kLines = <<>> THEN st
    ELSE UpdateAll(name, Update(name, st, Head(kLines).EndTime), Tail(kLines))

\* the loop of calculateAndUpdate without its test of inc.EndTime
UpdateNewerUnguarded(name, st, kLines) == UpdateAll(name, st, kLines)

\* for _, k := range kLines { if inc.EndTime != zeroTime &&
\* !k.EndTime.After(inc.EndTime) { continue }; inc.Update(...) }
RECURSIVE UpdateNewer(_, _, _)
UpdateNewer(name, st, kLines) ==
    IF kLines = <<>> THEN st
    ELSE IF st.EndTime # 0 /\ Head(kLines).EndTime <= st.EndTime
         THEN UpdateNewer(name, st, Tail(kLines))
         ELSE UpdateNewer(name, Update(name, st, Head(kLines).EndTime), Tail(kLines))

\* the test that sends VIDYA, TMA, ZLEMA and CCI down the cold-start branch
NeverUpdated(name, st) ==
    CASE name = "VIDYA" -> Len(st.input) = 0
      [] name = "TMA" -> ~st.started
      [] name = "ZLEMA" -> ~st.started
      [] name = "CCI" -> Len(st.aux) = 0

\* calculateAndUpdate of VIDYA, TMA, ZLEMA, CCI: the whole window when the
\* instance was never updated, the last candle otherwise
ColdOrLast(name, st, allKLines) ==
    IF NeverUpdated(name, st) THEN UpdateAll(name, st, allKLines)
    ELSE Update(name, st, allKLines[Len(allKLines)].EndTime)

\* calculateAndUpdate of OBV, ATR, RMA: the candles after inc.EndTime
SinceEndTime(name, st, kLines) ==
    [UpdateNewer(name, st, kLines) EXCEPT !.EndTime = kLines[Len(kLines)].EndTime]

\* calculateAndUpdate of STOCH: nothing while the window is shorter than
\* Window or DPeriod
STOCHCalculateAndUpdate(st, kLines) ==
    IF Len(kLines) < IndicatorWindow \/ Len(kLines) < DPeriod THEN st
    ELSE SinceEndTime("STOCH", st, kLines)

\* calculateAndUpdate of DEMA and CA: the whole window, every time
EveryCandle(name, st, allKLines) == UpdateAll(name, st, allKLines)

calculateAndUpdate(name, st, window) ==
    CASE name \in {"VIDYA", "TMA", "ZLEMA", "CCI"} -> ColdOrLast(name, st, window)
      [] name \in {"OBV", "ATR", "RMA"} -> SinceEndTime(name, st, window)
      [] name = "STOCH" -> STOCHCalculateAndUpdate(st, window)
      [] name \in {"DEMA", "CA"} -> EveryCandle(name, st, window)

\* if inc.Interval != interval { return }; inc.calculateAndUpdate(window)
handleKLineWindowUpdate(name, st, interval, window) ==
    IF IndicatorInterval # interval THEN st
    ELSE [calculateAndUpdate(name, st, window) EXCEPT !.notified = @ + 1]

(***************************************************************************)
(* The market data store of a symbol, its pre-warm and its stream handlers *)
(* in Environment.Init.                                                    *)
(***************************************************************************)
\* the closed candles of the exchange; the close of a candle is written as
\* its end time
KLines == [Interval : Intervals, EndTime : 1..MaxCandles]

NoKLine == [Interval |-> "", EndTime |-> 0]

\* the store as a value: its windows, its marks, its subscribers' state and
\* the window updates it has emitted
StoreNow ==
    [KLineWindows |-> KLineWindows, lastClosedEndTime |-> lastClosedEndTime,
     accepted |-> accepted, subscribers |-> subscribers, emitted |-> 0]

\* the bound of a window: the oldest excess entries are evicted
Evict(window) ==
    IF Len(window) > MaxNumOfKLines
    THEN SubSeq(window, Len(window) - MaxNumOfKLines + 1, Len(window))
    ELSE window

\* EmitKLineWindowUpdate(interval, window): every subscriber, with the full
\* current window
EmitKLineWindowUpdate(store, interval, window) ==
    [store EXCEPT !.subscribers = [name \in DOMAIN @ |->
                             handleKLineWindowUpdate(name, @[name], interval, window)],
                  !.emitted = @ + 1]

\* MarketDataStore.AddKLine of a closed candle: taken when its end time is
\* after the mark of its interval, dropped otherwise
AddKLine(store, k) ==
    IF k.EndTime > store.lastClosedEndTime[k.Interval]
    THEN LET window == Evict(Append(store.KLineWindows[k.Interval], k))
         IN  EmitKLineWindowUpdate(
                 [store EXCEPT !.KLineWindows[k.Interval] = window,
                               !.lastClosedEndTime[k.Interval] = k.EndTime,
                               !.accepted[k.Interval] = Append(@, k)],
                 k.Interval, window)
    ELSE store

\* for _, k := range kLines { marketDataStore.AddKLine(k) }
RECURSIVE AddKLines(_, _)
AddKLines(store, kLines) ==
    IF kLines = <<>> THEN store
    ELSE AddKLines(AddKLine(store, Head(kLines)), Tail(kLines))

\* the store after a step
StoreBecomes(store) ==
    /\ KLineWindows' = store.KLineWindows
    /\ lastClosedEndTime' = store.lastClosedEndTime
    /\ accepted' = store.accepted
    /\ subscribers' = store.subscribers
    /\ emitted' = store.emitted

\* NewMarketDataStore(symbol), the indicators bound to it, and Init about to
\* load the historical candles
NewMarketDataStoreWith(names) ==
    /\ KLineWindows = [i \in Intervals |-> <<>>]
    /\ lastClosedEndTime = [i \in Intervals |-> 0]
    /\ accepted = [i \in Intervals |-> <<>>]
    /\ subscribers = [name \in names |-> NewIndicatorState(name)]
    /\ lastPrice = 0
    /\ mdPhase = "prewarm"
    /\ warmed = {}
    /\ nHist = [i \in Intervals |-> 0]
    /\ nLive = 0
    /\ lastKLine = NoKLine
    /\ emitted = 0

\* the store with one instance of every indicator bound to it
NewMarketDataStore == NewMarketDataStoreWith(IndicatorNames)

\* Init, for one interval: QueryKLines up to now, then AddKLine of each candle
\* in turn; the exchange has n closed candles of the interval
PreWarm(interval, n) ==
    /\ mdPhase = "prewarm"
    /\ interval \notin warmed
    /\ \/ /\ mdPhase' = "exit"
          /\ UNCHANGED <<KLineWindows, lastClosedEndTime, accepted, subscribers, warmed,
                         nHist, emitted>>
       \/ /\ StoreBecomes(AddKLines(StoreNow,
                 [t \in 1..n |-> [Interval |-> interval, EndTime |-> t]]))
          /\ warmed' = warmed \cup {interval}
          /\ nHist' = [nHist EXCEPT ![interval] = n]
          /\ UNCHANGED mdPhase
    /\ UNCHANGED <<lastPrice, nLive, lastKLine>>
    /\ UNCHANGED nonMdVars

\* Init registers its stream handlers and returns nil
InitReturns ==
    /\ mdPhase = "prewarm"
    /\ warmed = Intervals
    /\ mdPhase' = "live"
    /\ UNCHANGED <<KLineWindows, lastClosedEndTime, accepted, subscribers, lastPrice,
                   warmed, nHist, nLive, lastKLine, emitted>>
    /\ UNCHANGED nonMdVars

\* KLineClosed whose Init handler also hands the window to the indicators
KLineClosedAlsoDispatch(kline) ==
    /\ mdPhase = "live"
    /\ nLive < MaxLive
    /\ nLive' = nLive + 1
    /\ lastKLine' = kline
    /\ lastPrice' = kline.EndTime
    /\ LET store == AddKLine(AddKLine(StoreNow, kline), kline)
       IN  StoreBecomes(EmitKLineWindowUpdate(store, kline.Interval,
                                              store.KLineWindows[kline.Interval]))
    /\ UNCHANGED <<mdPhase, warmed, nHist>>
    /\ UNCHANGED nonMdVars

\* KLineClosed whose Init handler writes the candle over the newest entry of
\* the window before it calls AddKLine
KLineClosedReplaceTail(kline) ==
    /\ mdPhase = "live"
    /\ nLive < MaxLive
    /\ nLive' = nLive + 1
    /\ lastKLine' = kline
    /\ lastPrice' = kline.EndTime
    /\ LET store == AddKLine(StoreNow, kline)
           w == store.KLineWindows[kline.Interval]
           over == IF w = <<>> THEN store
                   ELSE [store EXCEPT !.KLineWindows[kline.Interval] =
                                         [w EXCEPT ![Len(w)] = kline]]
       IN  StoreBecomes(AddKLine(over, kline))
    /\ UNCHANGED <<mdPhase, warmed, nHist>>
    /\ UNCHANGED nonMdVars

\* the stream reports a closed candle: the handlers run in the order they were
\* registered, the store's own (BindStream) and then Init's, which sets the
\* last price and calls AddKLine on the same store
KLineClosed(kline) ==
    /\ mdPhase = "live"
    /\ nLive < MaxLive
    /\ nLive' = nLive + 1
    /\ lastKLine' = kline
    /\ lastPrice' = kline.EndTime
    /\ StoreBecomes(AddKLine(AddKLine(StoreNow, kline), kline))
    /\ UNCHANGED <<mdPhase, warmed, nHist>>
    /\ UNCHANGED nonMdVars

\* Bind that hands the current window to the new subscriber at once
BindAndReplay(name) ==
    /\ mdPhase \in {"prewarm", "live"}
    /\ name \notin DOMAIN subscribers
    /\ DOMAIN subscribers = {}
    /\ subscribers' =
         [n \in DOMAIN subscribers \cup {name} |->
            IF n = name
            THEN IF KLineWindows[IndicatorInterval] = <<>>
                 THEN NewIndicatorState(name)
                 ELSE handleKLineWindowUpdate(name, NewIndicatorState(name),
                          IndicatorInterval, KLineWindows[IndicatorInterval])
            ELSE subscribers[n]]
    /\ UNCHANGED <<KLineWindows, lastClosedEndTime, accepted, lastPrice, mdPhase,
                   warmed, nHist, nLive, lastKLine, emitted>>
    /\ UNCHANGED nonMdVars

\* a new instance of an indicator is bound to the store:
\* inc.Bind(store) is store.OnKLineWindowUpdate(inc.handleKLineWindowUpdate)
Bind(name) ==
    /\ mdPhase \in {"prewarm", "live"}
    /\ name \notin DOMAIN subscribers
    /\ DOMAIN subscribers = {}
    /\ subscribers' =
         [n \in DOMAIN subscribers \cup {name} |->
            IF n = name THEN NewIndicatorState(name) ELSE subscribers[n]]
    /\ UNCHANGED <<KLineWindows, lastClosedEndTime, accepted, lastPrice, mdPhase,
                   warmed, nHist, nLive, lastKLine, emitted>>
    /\ UNCHANGED nonMdVars

(***************************************************************************)
(* The circuit break risk control.                                         *)
(***************************************************************************)
\* the cases of Test_IsHalted: price 30000, TodayPnL -100, breakCondition
\* -500, and what the test expects of IsHalted
Test_IsHalted ==
    {[position |-> [Base |-> 10, AverageCost |-> 30040], isHalted |-> "true"],
     [position |-> [Base |-> 10, AverageCost |-> 30050], isHalted |-> "true"],
     [position |-> [Base |-> 10, AverageCost |-> 30030], isHalted |-> "false"],
     [position |-> [Base |-> -10, AverageCost |-> 29960], isHalted |-> "true"],
     [position |-> [Base |-> -10, AverageCost |-> 29950], isHalted |-> "true"],
     [position |-> [Base |-> -10, AverageCost |-> 29970], isHalted |-> "false"]}

\* NewCircuitBreakRiskControl(position, price, breakCondition, profitStats)
\* as the test calls it
TestControls ==
    {[position |-> tc.position, price |-> 30000, breakCondition |-> -500,
      TodayPnL |-> -100] : tc \in Test_IsHalted}

\* NewCircuitBreakRiskControl over small positions, prices and thresholds
SmallControls ==
    [position : [Base : (-MaxBase)..MaxBase, AverageCost : 1..MaxPrice],
     price : 1..MaxPrice,
     breakCondition : (-MaxLoss)..(-1),
     TodayPnL : (-MaxLoss)..1]

\* position.base * (markPrice - averageCost) + realizedPnL
TotalPnL(rc) ==
    rc.position.Base * (rc.price - rc.position.AverageCost) + rc.TodayPnL

\* IsHalted that halts only below the threshold
HaltedBelow(rc) ==
    IF rc.position.Base = 0 THEN "false"
    ELSE IF TotalPnL(rc) < rc.breakCondition THEN "true" ELSE "false"

\* IsHalted that takes a zero position like any other
HaltedZeroToo(rc) ==
    IF TotalPnL(rc) <= rc.breakCondition THEN "true" ELSE "false"

\* CircuitBreakRiskControl.IsHalted: never with a zero position, else when
\* the total P&L is at or below the threshold
Halted(rc) ==
    IF rc.position.Base = 0 THEN "false"
    ELSE IF TotalPnL(rc) <= rc.breakCondition THEN "true" ELSE "false"

NewCircuitBreakRiskControl ==
    /\ riskControl \in TestControls \cup SmallControls
    /\ isHalted = "none"

\* before a strategy makes a risk control
NoRiskControl ==
    /\ riskControl = <<>>
    /\ isHalted = "none"

\* riskControl.IsHalted()
IsHalted ==
    /\ isHalted' = Halted(riskControl)
    /\ UNCHANGED riskControl
    /\ UNCHANGED nonCbVars

\* priceEWMA.Update(price): the mark price the next IsHalted reads
PriceUpdate(price) ==
    /\ riskControl' = [riskControl EXCEPT !.price = price]
    /\ isHalted' = "none"
    /\ UNCHANGED nonCbVars

(***************************************************************************)
(* The Environment: Subscribe, Init and Connect over its sessions. A        *)
(* session is written with the state of its stream: the handlers           *)
(* registered on it, the subscriptions sent to it, whether it is           *)
(* connected, and how the events it delivered were met.                    *)
(***************************************************************************)
SessionNames == {"main", "hedge"}

Channels == {"kline"}

\* types.Subscription{Channel, Symbol}
Subscriptions == [Channel : Channels, Symbol : Symbols]

\* NewExchangeSession(name, exchange)
NewExchangeSession ==
    [Subscriptions |-> {},
     loadedSymbols |-> {},
     markets |-> "unset",       \* "unset", "empty" or "ok"
     synced |-> {},             \* the symbols TradeSync.Sync returned nil for
     queried |-> {},            \* the symbols TradeService.Query returned for
     stores |-> {},             \* the symbols with a store bound to the stream
     fed |-> {},                \* <<symbol, interval>> whose candles were fed
     balances |-> FALSE,        \* Account.UpdateBalances was called
     handlers |-> <<>>,         \* the handlers registered on the stream
     sent |-> [sub \in Subscriptions |-> 0],   \* Stream.Subscribe calls
     connected |-> "no",        \* Stream.Connect: "no", "yes" or "failed"
     seen |-> {}]               \* events delivered: "handled", "unhandled"

\* the handlers Init registers on the stream itself
InitHandlers == {"OnKLineClosed", "OnTradeUpdate insert", "OnTradeUpdate append"}

\* the body of Init for one session, as the steps it takes in order; order1
\* and order2 are the orders the two range loops visit loadedSymbols in
RECURSIVE SymbolSteps(_, _)
SymbolSteps(order, hasTradeSync) ==
    IF order = <<>> THEN <<>>
    ELSE (IF hasTradeSync
          THEN <<[do |-> "Sync", symbol |-> Head(order)],
                 [do |-> "Query", symbol |-> Head(order)]>>
          ELSE <<>>)
         \o <<[do |-> "QueryAveragePrice", symbol |-> Head(order)],
              [do |-> "NewMarketDataStore", symbol |-> Head(order)]>>
         \o SymbolSteps(Tail(order), hasTradeSync)

RECURSIVE KLineSteps(_, _)
KLineSteps(order, intervals) ==
    IF order = <<>> THEN <<>>
    ELSE [i \in 1..Len(intervals) |->
            [do |-> "QueryKLines", symbol |-> Head(order), interval |-> intervals[i]]]
         \o KLineSteps(Tail(order), intervals)

HandlerSteps(hasTradeService) ==
    <<[do |-> "OnKLineClosed"]>>
    \o (IF hasTradeService THEN <<[do |-> "OnTradeUpdate insert"]>> ELSE <<>>)
    \o <<[do |-> "OnTradeUpdate append"]>>

\* Init that registers its stream handlers before it queries the balances
InitStepsHandlersFirst(order1, order2, intervals, db) ==
    <<[do |-> "QueryMarkets"]>>
    \o SymbolSteps(order1, db)
    \o KLineSteps(order2, intervals)
    \o HandlerSteps(db)
    \o <<[do |-> "QueryAccountBalances"]>>

InitSteps(order1, order2, intervals, db) ==
    <<[do |-> "QueryMarkets"]>>
    \o SymbolSteps(order1, db)
    \o KLineSteps(order2, intervals)
    \o <<[do |-> "QueryAccountBalances"]>>
    \o HandlerSteps(db)

\* the orders a range loop may visit a set in
Orders(S) ==
    {o \in [1..Cardinality(S) -> S] : \A i, j \in DOMAIN o : i # j => o[i] # o[j]}

\* the steps of Init that can return an error
Fallible ==
    {"QueryMarkets", "Sync", "Query", "QueryAveragePrice", "QueryKLines",
     "QueryAccountBalances"}

\* Init that takes an empty market map
MarketsErrorAny(markets) == FALSE

\* if len(markets) == 0 { return errors.Errorf(...) }
MarketsError(markets) == markets = "empty"

\* what a step of Init that returned nil has done to the session
StepDone(session, step) ==
    CASE step.do = "QueryMarkets" -> [session EXCEPT !.markets = "ok"]
      [] step.do = "Sync" -> [session EXCEPT !.synced = @ \cup {step.symbol}]
      [] step.do = "Query" -> [session EXCEPT !.queried = @ \cup {step.symbol}]
      [] step.do = "QueryAveragePrice" -> session
      [] step.do = "NewMarketDataStore" ->
            [session EXCEPT !.stores = @ \cup {step.symbol},
                            !.handlers = Append(@, "store")]
      [] step.do = "QueryKLines" ->
            [session EXCEPT !.fed = @ \cup {<<step.symbol, step.interval>>}]
      [] step.do = "QueryAccountBalances" ->
            [session EXCEPT !.balances = TRUE, !.handlers = Append(@, "account")]
      [] OTHER -> [session EXCEPT !.handlers = Append(@, step.do)]

\* whether the session shows that the step was taken
Shows(session, step) ==
    CASE step.do = "QueryMarkets" -> session.markets = "ok"
      [] step.do = "Sync" -> step.symbol \in session.synced
      [] step.do = "Query" -> step.symbol \in session.queried
      [] step.do = "QueryAveragePrice" -> FALSE
      [] step.do = "NewMarketDataStore" -> step.symbol \in session.stores
      [] step.do = "QueryKLines" -> <<step.symbol, step.interval>> \in session.fed
      [] step.do = "QueryAccountBalances" -> session.balances
      [] OTHER -> \E i \in DOMAIN session.handlers : session.handlers[i] = step.do

\* NewEnvironment(), with or without SyncTrades(db), and AddExchange of each
\* session
NewEnvironment ==
    /\ sessions = [n \in SessionNames |-> NewExchangeSession]
    /\ environ \in
         [pc : {"setup"},          \* "setup", "Init", "Connect", "idle"
          db : BOOLEAN,            \* TradeService and TradeSync are set
          session : {""},          \* the session the running loop is in
          left : {SessionNames},   \* the sessions the running loop has not visited
          todo : {<<>>},           \* the steps of Init left for the session
          initRet : {"none"},      \* what Init returned: "none", "nil", "err"
          connectRet : {"none"},
          connecting : {""},       \* the session the loop of Connect is in
          unvisited : {SessionNames},   \* the sessions it has not visited
          initFirst : {FALSE}]     \* Init had returned nil when Connect was called

\* no Environment has been made
NoEnvironment ==
    /\ sessions = <<>>
    /\ environ = <<>>

\* Subscribe that also hands the subscription to the stream
SubscribeAndSend(n, sub) ==
    /\ environ.pc = "setup"
    /\ sessions' = [sessions EXCEPT ![n].loadedSymbols = @ \cup {sub.Symbol},
                                    ![n].Subscriptions = @ \cup {sub},
                                    ![n].sent[sub] = @ + 1]
    /\ UNCHANGED environ
    /\ UNCHANGED nonEnvVars

\* ExchangeSession.Subscribe(channel, symbol, options), called by the
\* strategies before Init and Connect
Subscribe(n, sub) ==
    /\ environ.pc = "setup"
    /\ sessions' = [sessions EXCEPT ![n].loadedSymbols = @ \cup {sub.Symbol},
                                    ![n].Subscriptions = @ \cup {sub}]
    /\ UNCHANGED environ
    /\ UNCHANGED nonEnvVars

\* the caller calls Init
InitCall ==
    /\ environ.pc \in {"setup", "idle"}
    /\ environ.initRet = "none"
    /\ environ' = [environ EXCEPT !.pc = "Init", !.left = SessionNames,
                                  !.session = "", !.todo = <<>>]
    /\ UNCHANGED sessions
    /\ UNCHANGED nonEnvVars

\* for n := range environ.sessions: the loop of Init enters its next session,
\* or Init returns nil
InitNextSession ==
    /\ environ.pc = "Init"
    /\ environ.todo = <<>>
    /\ IF environ.left = {}
       THEN environ' = [environ EXCEPT !.pc = "idle", !.initRet = "nil",
                                       !.session = ""]
       ELSE \E n \in environ.left :
            \E order1, order2 \in Orders(sessions[n].loadedSymbols) :
            \E intervals \in Orders(Intervals) :
               environ' = [environ EXCEPT
                              !.session = n,
                              !.left = @ \ {n},
                              !.todo = InitSteps(order1, order2, intervals, environ.db)]
    /\ UNCHANGED sessions
    /\ UNCHANGED nonEnvVars

\* one step of Init in the session it is in: the step returns nil and Init
\* goes on, or it returns an error (or an empty market map) and so does Init
InitStep ==
    /\ environ.pc = "Init"
    /\ environ.todo # <<>>
    /\ LET step == Head(environ.todo)
           n == environ.session
       IN  \/ /\ sessions' = [sessions EXCEPT ![n] = StepDone(@, step)]
              /\ environ' = [environ EXCEPT !.todo = Tail(@)]
           \/ /\ step.do = "QueryMarkets"
              /\ sessions' = [sessions EXCEPT ![n].markets = "empty"]
              /\ IF MarketsError("empty")
                 THEN environ' = [environ EXCEPT !.pc = "idle", !.initRet = "err"]
                 ELSE environ' = [environ EXCEPT !.todo = Tail(@)]
           \/ /\ step.do \in Fallible
              /\ environ' = [environ EXCEPT !.pc = "idle", !.initRet = "err"]
              /\ UNCHANGED sessions
    /\ UNCHANGED nonEnvVars

\* the caller calls Connect
ConnectCall ==
    /\ environ.pc \in {"setup", "idle"}
    /\ environ.connectRet = "none"
    /\ environ' = [environ EXCEPT !.pc = "Connect", !.unvisited = SessionNames,
                                  !.connecting = "",
                                  !.initFirst = (environ.initRet = "nil")]
    /\ UNCHANGED sessions
    /\ UNCHANGED nonEnvVars

\* for n := range environ.sessions: a session without subscriptions is
\* passed over; the subscriptions of the next are sent to its stream, each
\* with one Stream.Subscribe
ConnectNextSession ==
    /\ environ.pc = "Connect"
    /\ environ.connecting = ""
    /\ IF environ.unvisited = {}
       THEN /\ environ' = [environ EXCEPT !.pc = "idle", !.connectRet = "nil"]
            /\ UNCHANGED sessions
       ELSE \E n \in environ.unvisited :
               IF sessions[n].Subscriptions = {}
               THEN /\ environ' = [environ EXCEPT !.unvisited = @ \ {n}]
                    /\ UNCHANGED sessions
               ELSE /\ environ' = [environ EXCEPT !.unvisited = @ \ {n}, !.connecting = n]
                    /\ sessions' =
                         [sessions EXCEPT ![n].sent =
                            [sub \in Subscriptions |->
                               IF sub \in sessions[n].Subscriptions
                               THEN @[sub] + 1 ELSE @[sub]]]
    /\ UNCHANGED nonEnvVars

\* session.Stream.Connect(ctx) returns nil, or an error that Connect returns
StreamConnect ==
    /\ environ.pc = "Connect"
    /\ environ.connecting # ""
    /\ \/ /\ sessions' = [sessions EXCEPT ![environ.connecting].connected = "yes"]
          /\ environ' = [environ EXCEPT !.connecting = ""]
       \/ /\ sessions' = [sessions EXCEPT ![environ.connecting].connected = "failed"]
          /\ environ' = [environ EXCEPT !.pc = "idle", !.connectRet = "err",
                                        !.connecting = ""]
    /\ UNCHANGED nonEnvVars

\* a connected stream delivers an event to the handlers registered on it
StreamEvent(n) ==
    /\ sessions[n].connected = "yes"
    /\ sessions' =
         [sessions EXCEPT ![n].seen = @ \cup
            {IF \A h \in InitHandlers \ (IF environ.db THEN {} ELSE {"OnTradeUpdate insert"}) :
                   \E i \in DOMAIN sessions[n].handlers : sessions[n].handlers[i] = h
             THEN "handled" ELSE "unhandled"}]
    /\ UNCHANGED environ
    /\ UNCHANGED nonEnvVars

(***************************************************************************)
(* The okex exchange: its methods, the two rate limiters of the package     *)
(* and the context of a call.                                              *)
(***************************************************************************)
\* rate.NewLimiter(rate.Every(100*time.Millisecond), 5)
marketDataBurst == 5

\* rate.NewLimiter(rate.Every(300*time.Millisecond), 5)
orderBurst == 5

\* "The default order limiter ... this includes QueryOrder, QueryOrderTrades,
\* SubmitOrder, QueryOpenOrders, CancelOrders"
OrderLimiterDoc ==
    {"QueryOrder", "QueryOrderTrades", "SubmitOrder", "QueryOpenOrders", "CancelOrders"}

\* the queries of closed orders and of trades
HistoricalQueries == {"QueryClosedOrders", "QueryTrades"}

OkexMethods == OrderLimiterDoc \cup HistoricalQueries \cup {"QueryKLines"}

\* the arguments of a call, as far as the method looks at them before its
\* request: "ok", or what makes it return early
Arguments(method) ==
    CASE method = "SubmitOrder" -> {"ok", "order type"}
      [] method = "QueryOrder" -> {"ok", "no symbol", "no order id"}
      [] method = "QueryClosedOrders" -> {"ok", "no symbol"}
      [] method = "QueryTrades" -> {"ok", "no symbol", "no time range"}
      [] OTHER -> {"ok"}

\* the checks a method makes before it reaches its limiter or its request
EarlyReturn(method, arguments) ==
    arguments \in {"order type", "no symbol", "no order id"}

\* the limiter a method calls Wait on before its request, "none" when it
\* calls none
Limiter(method) ==
    CASE method = "QueryKLines" -> "marketDataLimiter"
      [] method \in {"QueryOrderTrades", "QueryClosedOrders", "QueryTrades"} ->
            "orderRateLimiter"
      [] OTHER -> "none"

NoError == [text |-> "", cause |-> "nil"]

\* fmt.Errorf("...: %v", err): the text of the error without the error
WaitErrorOpaque(method, err) ==
    IF method = "QueryKLines" THEN [text |-> "", cause |-> err]
    ELSE [text |-> "rate limiter wait error", cause |-> "nil"]

\* what a method returns for the error of Limiter.Wait: QueryKLines the
\* error itself, the others fmt.Errorf("... rate limiter wait error: %w", err)
WaitError(method, err) ==
    IF method = "QueryKLines" THEN [text |-> "", cause |-> err]
    ELSE [text |-> "rate limiter wait error", cause |-> err]

\* what a method returns for the error of its request
RequestError(method, err) ==
    IF method \in {"QueryOrderTrades", "QueryClosedOrders", "QueryTrades"}
    THEN [text |-> "failed to", cause |-> err]
    ELSE [text |-> "", cause |-> err]

NoOkexCall ==
    [method |-> "", arguments |-> "", pc |-> "idle", ctxDone |-> FALSE,
     acquired |-> "none", waited |-> FALSE, requested |-> FALSE,
     err |-> NoError, data |-> FALSE,
     orders |-> <<>>]           \* the Symbol of each order given to CancelOrders

\* the package when it is loaded: both limiters hold their burst
NewOkex ==
    /\ okexCall = NoOkexCall
    /\ limiters = [marketDataLimiter |-> marketDataBurst,
                   orderRateLimiter |-> orderBurst]

\* no okex exchange
NoOkex ==
    /\ okexCall = <<>>
    /\ limiters = <<>>

\* a method is called, with a context that is not cancelled or one that is;
\* it makes its early checks
OkexCall(method, arguments, done) ==
    /\ okexCall.pc \in {"idle", "returned"}
    /\ okexCall' =
         IF EarlyReturn(method, arguments)
         THEN [NoOkexCall EXCEPT !.method = method, !.arguments = arguments,
                             !.ctxDone = done, !.pc = "returned",
                             !.err = [text |-> "", cause |-> arguments]]
         ELSE [NoOkexCall EXCEPT !.method = method, !.arguments = arguments,
                             !.ctxDone = done, !.pc = "limit"]
    /\ UNCHANGED limiters
    /\ UNCHANGED nonOkexVars

\* the lists of orders CancelOrders is called with, by their symbols
OrderLists ==
    UNION {[1..n -> {"", "BTCUSDT"}] : n \in 0..MaxCancel}

\* the loop of CancelOrders that passes over an order without a symbol
RECURSIVE CancelRequestsSkip(_, _)
CancelRequestsSkip(os, reqs) ==
    IF os = <<>> THEN [err |-> "nil", reqs |-> reqs]
    ELSE IF Head(os) = "" THEN CancelRequestsSkip(Tail(os), reqs)
    ELSE CancelRequestsSkip(Tail(os), Append(reqs, Head(os)))

\* for _, order := range orders: ErrSymbolRequired at the first order without
\* a symbol, a cancel request appended for every other
RECURSIVE CancelRequests(_, _)
CancelRequests(os, reqs) ==
    IF os = <<>> THEN [err |-> "nil", reqs |-> reqs]
    ELSE IF Head(os) = "" THEN [err |-> "no symbol", reqs |-> <<>>]
    ELSE CancelRequests(Tail(os), Append(reqs, Head(os)))

\* CancelOrders(ctx, orders...): nil for no orders, the error of the loop, or
\* on to the batch request
CancelOrders(os, done) ==
    /\ okexCall.pc \in {"idle", "returned"}
    /\ LET begun == [NoOkexCall EXCEPT !.method = "CancelOrders", !.arguments = "ok",
                                      !.ctxDone = done, !.orders = os]
           built == CancelRequests(os, <<>>)
       IN  okexCall' =
             IF Len(os) = 0 THEN [begun EXCEPT !.pc = "returned"]
             ELSE IF built.err # "nil"
             THEN [begun EXCEPT !.pc = "returned",
                               !.err = [text |-> "", cause |-> built.err]]
             ELSE [begun EXCEPT !.pc = "limit"]
    /\ UNCHANGED limiters
    /\ UNCHANGED nonOkexVars

\* the context of the running call is cancelled
CtxCancel ==
    /\ okexCall.pc \in {"limit", "waiting", "request"}
    /\ ~okexCall.ctxDone
    /\ okexCall' = [okexCall EXCEPT !.ctxDone = TRUE]
    /\ UNCHANGED limiters
    /\ UNCHANGED nonOkexVars

\* limiter.Wait(ctx): returns ctx.Err() when the context is done, takes
\* capacity when there is some, and waits otherwise
Wait ==
    /\ okexCall.pc \in {"limit", "waiting"}
    /\ LET limiter == Limiter(okexCall.method)
       IN  IF limiter = "none"
           THEN /\ okexCall' = [okexCall EXCEPT !.pc = "request"]
                /\ UNCHANGED limiters
           ELSE IF okexCall.ctxDone
           THEN /\ okexCall' =
                     [okexCall EXCEPT
                         !.pc = "returned",
                         !.waited = (okexCall.pc = "waiting"),
                         !.err = WaitError(okexCall.method, "context canceled")]
                /\ UNCHANGED limiters
           ELSE IF limiters[limiter] > 0
           THEN /\ okexCall' = [okexCall EXCEPT !.pc = "request", !.acquired = limiter]
                /\ limiters' = [limiters EXCEPT ![limiter] = @ - 1]
           ELSE /\ okexCall.pc = "limit"
                /\ okexCall' = [okexCall EXCEPT !.pc = "waiting"]
                /\ UNCHANGED limiters
    /\ UNCHANGED nonOkexVars

\* time passes: a limiter gains capacity up to its burst
Refill(limiter) ==
    /\ limiters[limiter] <
          (IF limiter = "orderRateLimiter" THEN orderBurst ELSE marketDataBurst)
    /\ limiters' = [limiters EXCEPT ![limiter] = @ + 1]
    /\ UNCHANGED okexCall
    /\ UNCHANGED nonOkexVars

\* req.Do(ctx) and the conversion of its response: QueryTrades without a
\* time range returns before it; the request fails, with the context's error
\* or the exchange's when the context is done; a row fails to convert; or the
\* data is returned
Request ==
    /\ okexCall.pc = "request"
    /\ IF okexCall.arguments = "no time range"
       THEN okexCall' = [okexCall EXCEPT
                            !.pc = "returned",
                            !.err = [text |-> "", cause |-> "no time range"]]
       ELSE \/ okexCall' = [okexCall EXCEPT
                               !.pc = "returned", !.requested = TRUE,
                               !.err = RequestError(okexCall.method, "request failed")]
            \/ /\ okexCall.ctxDone
               /\ okexCall' = [okexCall EXCEPT
                                  !.pc = "returned", !.requested = TRUE,
                                  !.err = RequestError(okexCall.method, "context canceled")]
            \/ /\ okexCall.method # "CancelOrders"
               /\ okexCall' = [okexCall EXCEPT
                                  !.pc = "returned", !.requested = TRUE,
                                  !.err = [text |-> "", cause |-> "convert"]]
            \/ okexCall' = [okexCall EXCEPT
                               !.pc = "returned", !.requested = TRUE,
                               !.data = (okexCall.method # "CancelOrders")]
    /\ UNCHANGED limiters
    /\ UNCHANGED nonOkexVars

(***************************************************************************)
(* The protection stop loss of pivotshort. Prices are whole numbers and a   *)
(* ratio is written in tenths, so that one is 10.                           *)
(***************************************************************************)
\* fixedpoint one, in tenths
one == 10

\* the ratios of the settings, in tenths; a StopLossRatio of one is among them
Ratios == {1, 2, one}

\* position.AverageCost of a position
AverageCosts == {MaxCost \div 2, MaxCost}

\* the close of a candle, the price of a market trade
Prices == 1..MaxCost

\* the statuses an order update carries
OrderStatuses == {"NEW", "PARTIALLY_FILLED", "FILLED", "CANCELED"}

\* a.Mul(r) for a ratio r
Mul(a, r) == (a * r) \div one

IsLong(position) == position.Base > 0

IsShort(position) == position.Base < 0

IsClosed(position) == position.Base = 0

\* shouldActivate(position, closePrice)
shouldActivate(s, position, closePrice) ==
    IF IsLong(position)
    THEN closePrice > Mul(position.AverageCost, one + s.ActivationRatio)
    ELSE IF IsShort(position)
    THEN closePrice < Mul(position.AverageCost, one - s.ActivationRatio)
    ELSE FALSE

\* shouldStop(closePrice)
shouldStop(s, closePrice) ==
    IF s.stopLossPrice = 0 THEN FALSE ELSE closePrice >= s.stopLossPrice

\* what a handler has done: the struct as it leaves it and the calls it made
Handled(s) == [s |-> s, ClosePosition |-> FALSE, SubmitOrders |-> FALSE]

\* placeStopOrder: a tracked order is cancelled and forgotten, the stop order
\* is submitted, and the first created order, if any (0 for none), is tracked
placeStopOrder(s, created) ==
    [s |-> [s EXCEPT !.stopLossOrder = created],
     ClosePosition |-> FALSE, SubmitOrders |-> TRUE]

\* checkStopPrice(closePrice, position)
checkStopPrice(s, closePrice) ==
    [Handled(s) EXCEPT !.ClosePosition = shouldStop(s, closePrice)]

\* handleChange that works the stop-loss price out again on every candle
handleChangeRecompute(s, position, closePrice, created) ==
    IF shouldActivate(s, position, closePrice)
    THEN LET t == [s EXCEPT !.stopLossPrice =
                      IF IsShort(position)
                      THEN Mul(position.AverageCost, one - s.StopLossRatio)
                      ELSE IF IsLong(position)
                      THEN Mul(position.AverageCost, one + s.StopLossRatio)
                      ELSE @]
         IN  IF s.PlaceStopOrder THEN placeStopOrder(t, created)
             ELSE checkStopPrice(t, closePrice)
    ELSE IF s.stopLossPrice = 0 THEN Handled(s)
    ELSE checkStopPrice(s, closePrice)

\* handleChange(ctx, position, closePrice, orderExecutor)
handleChange(s, position, closePrice, created) ==
    IF s.stopLossPrice = 0
    THEN IF shouldActivate(s, position, closePrice)
         THEN LET t == [s EXCEPT !.stopLossPrice =
                           IF IsShort(position)
                           THEN Mul(position.AverageCost, one - s.StopLossRatio)
                           ELSE IF IsLong(position)
                           THEN Mul(position.AverageCost, one + s.StopLossRatio)
                           ELSE @]
              IN  IF s.PlaceStopOrder THEN placeStopOrder(t, created)
                  ELSE checkStopPrice(t, closePrice)
         ELSE Handled(s)
    ELSE checkStopPrice(s, closePrice)

NoSlCall ==
    [event |-> "none", OrderID |-> 0, Status |-> "",
     ClosePosition |-> FALSE, SubmitOrders |-> FALSE]

\* the strategy's symbol
slSymbol == "BTCUSDT"

\* Bind(session, orderExecutor), on a strategy with its settings read and an
\* executor with its position
BindStopLoss ==
    /\ stopLoss \in [ActivationRatio : Ratios \ {one}, StopLossRatio : Ratios,
                     PlaceStopOrder : BOOLEAN, IsBackTesting : BOOLEAN,
                     stopLossPrice : {0}, stopLossOrder : {0}]
    /\ slPosition \in [Base : {-1, 0, 1}, AverageCost : AverageCosts]
    /\ slCall = NoSlCall

\* no protection stop loss
NoStopLoss ==
    /\ stopLoss = <<>>
    /\ slPosition = <<>>
    /\ slCall = <<>>

\* the handler of OnPositionUpdate that clears the price and keeps the order
OnPositionUpdateKeepOrder(position) ==
    /\ slPosition' = position
    /\ stopLoss' = IF IsClosed(position)
                   THEN [stopLoss EXCEPT !.stopLossPrice = 0]
                   ELSE stopLoss
    /\ slCall' = [NoSlCall EXCEPT !.event = "PositionUpdate"]
    /\ UNCHANGED nonSlVars

\* the trade collector reports the position after a trade
OnPositionUpdate(position) ==
    /\ slPosition' = position
    /\ stopLoss' = IF IsClosed(position)
                   THEN [stopLoss EXCEPT !.stopLossOrder = 0, !.stopLossPrice = 0]
                   ELSE stopLoss
    /\ slCall' = [NoSlCall EXCEPT !.event = "PositionUpdate"]
    /\ UNCHANGED nonSlVars

\* the handler of OnOrderUpdate that does not compare the OrderID
OnOrderUpdateAnyID(order) ==
    /\ stopLoss' =
         IF stopLoss.stopLossOrder = 0 THEN stopLoss
         ELSE IF order.Status \in {"FILLED", "CANCELED"}
         THEN [stopLoss EXCEPT !.stopLossOrder = 0, !.stopLossPrice = 0]
         ELSE stopLoss
    /\ slCall' = [NoSlCall EXCEPT !.event = "OrderUpdate",
                                  !.OrderID = order.OrderID, !.Status = order.Status]
    /\ UNCHANGED slPosition
    /\ UNCHANGED nonSlVars

\* the user data stream reports an order
OnOrderUpdate(order) ==
    /\ stopLoss' =
         IF stopLoss.stopLossOrder = 0 THEN stopLoss
         ELSE IF order.OrderID = stopLoss.stopLossOrder
                 /\ order.Status \in {"FILLED", "CANCELED"}
         THEN [stopLoss EXCEPT !.stopLossOrder = 0, !.stopLossPrice = 0]
         ELSE stopLoss
    /\ slCall' = [NoSlCall EXCEPT !.event = "OrderUpdate",
                                  !.OrderID = order.OrderID, !.Status = order.Status]
    /\ UNCHANGED slPosition
    /\ UNCHANGED nonSlVars

\* the market data stream reports a closed candle; dust is what
\* position.IsDust(kline.Close) returns, created the OrderID of the order the
\* exchange makes should one be submitted (0 when it makes none)
OnKLineClosed(kline, dust, created) ==
    /\ LET r == IF kline.Symbol # slSymbol \/ kline.Interval # "1m"
                THEN Handled(stopLoss)
                ELSE IF ~IsClosed(slPosition) /\ ~dust /\ IsShort(slPosition)
                THEN handleChange(stopLoss, slPosition, kline.Close, created)
                ELSE Handled(stopLoss)
       IN  /\ stopLoss' = r.s
           /\ slCall' = [NoSlCall EXCEPT !.event = "KLineClosed",
                                         !.ClosePosition = r.ClosePosition,
                                         !.SubmitOrders = r.SubmitOrders]
    /\ UNCHANGED slPosition
    /\ UNCHANGED nonSlVars

\* the market data stream reports a trade of the market; the handler is
\* registered unless bbgo.IsBackTesting
OnMarketTrade(trade) ==
    /\ ~stopLoss.IsBackTesting
    /\ LET r == IF trade.Symbol # slSymbol THEN Handled(stopLoss)
                ELSE IF stopLoss.stopLossPrice = 0 \/ stopLoss.PlaceStopOrder
                THEN Handled(stopLoss)
                ELSE checkStopPrice(stopLoss, trade.Price)
       IN  /\ stopLoss' = r.s
           /\ slCall' = [NoSlCall EXCEPT !.event = "MarketTrade",
                                         !.ClosePosition = r.ClosePosition]
    /\ UNCHANGED slPosition
    /\ UNCHANGED nonSlVars

(***************************************************************************)
(* The standard indicator set of a symbol.                                 *)
(***************************************************************************)

\* the windows NewStandardIndicatorSet pre-defines for sma and ewma, and for boll
PredefinedWindows == {7, 25, 99}

PredefinedBollWindows == {21}

\* the windows callers ask for: one pre-defined for sma and ewma, one for boll
RequestedWindows == {7, 21}

IndicatorKinds == {"sma", "ewma", "boll"}

IntervalWindows(windows) == [Interval : Intervals, Window : windows]

\* a nil *indicator.SMA, *indicator.EWMA or *indicator.BOLL
NilIndicator == [kind |-> "nil", iw |-> [Interval |-> "", Window |-> 0], gen |-> 0]

\* &indicator.SMA{IntervalWindow: iw}: a new instance, told apart from every
\* instance of the kind and key made before it
NewIndicator(kind, iw, existing) ==
    [kind |-> kind, iw |-> iw,
     gen |-> 1 + Cardinality({i \in existing : i.kind = kind /\ i.iw = iw})]

\* NewStandardIndicatorSet(symbol, store)
NewStandardIndicatorSet ==
    /\ indicators =
         [kind \in IndicatorKinds |->
            [iw \in IntervalWindows(IF kind = "boll" THEN PredefinedBollWindows
                                    ELSE PredefinedWindows)
               |-> NewIndicator(kind, iw, {})]]
    /\ setBound =
         {NewIndicator(kind, iw, {}) :
            kind \in {"sma", "ewma"}, iw \in IntervalWindows(PredefinedWindows)}
         \cup {NewIndicator("boll", iw, {}) : iw \in IntervalWindows(PredefinedBollWindows)}
    /\ setCall = [kind |-> "none", iw |-> [Interval |-> "", Window |-> 0]]
    /\ setRet = NilIndicator

\* inc, ok := m[iw]; if !ok { inc := &T{...}; inc.Bind(set.store); m[iw] = inc };
\* return inc. The inc of the if block is a new variable: the one returned is
\* the one the map lookup set
Accessor(kind, iw) ==
    /\ setCall' = [kind |-> kind, iw |-> iw]
    /\ LET m == indicators[kind]
           ok == iw \in DOMAIN m
           inc == IF ok THEN m[iw] ELSE NilIndicator
       IN  /\ setRet' = inc
           /\ IF ~ok
              THEN LET inner == NewIndicator(kind, iw, setBound)
                   IN  /\ setBound' = setBound \cup {inner}
                       /\ indicators' =
                            [indicators EXCEPT ![kind] =
                               [k \in DOMAIN m \cup {iw} |->
                                  IF k = iw THEN inner ELSE m[k]]]
              ELSE UNCHANGED <<setBound, indicators>>
    /\ UNCHANGED nonSetVars

\* StandardIndicatorSet.BOLL(iw, bandWidth)
BOLL(iw) == Accessor("boll", iw)

\* StandardIndicatorSet.SMA(iw)
SMA(iw) == Accessor("sma", iw)

\* StandardIndicatorSet.EWMA(iw)
EWMA(iw) == Accessor("ewma", iw)

(***************************************************************************)
(* The Update of OBV, STOCH, CCI and ZLEMA on numbers: one instance is     *)
(* made and is given one number, or the numbers of one candle, at a time.  *)
(* fed lists what it was given. A quotient or a mean is written as its     *)
(* terms.                                                                  *)
(***************************************************************************)
\* the most Update calls on one instance
MaxUpdates == 6

\* inc.Window of the instance
Windows == 1..IndicatorWindow

\* the high, low and close of a candle, low <= close <= high
Candles ==
    {c \in [High : {1, 2}, Low : {1, 2}, Close : {1, 2}] :
        c.Low <= c.Close /\ c.Close <= c.High}

\* Float64Slice.Last(): 0 for an empty slice
SliceLast(xs) == IF Len(xs) = 0 THEN 0 ELSE xs[Len(xs)]

\* Float64Slice.Index(i): the entry i places before the newest, 0 when the
\* slice does not reach that far
SliceIndex(xs, i) == IF i < 0 \/ Len(xs) - i <= 0 THEN 0 ELSE xs[Len(xs) - i]

\* Float64Slice.Tail(size): the newest size entries, or all of them
SliceTail(xs, size) ==
    IF Len(xs) <= size THEN xs ELSE SubSeq(xs, Len(xs) - size + 1, Len(xs))

\* Float64Slice.Min() and Max() of a slice that is not empty
SliceMin(xs) ==
    CHOOSE x \in {xs[i] : i \in 1..Len(xs)} : \A j \in 1..Len(xs) : x <= xs[j]

SliceMax(xs) ==
    CHOOSE x \in {xs[i] : i \in 1..Len(xs)} : \A j \in 1..Len(xs) : xs[j] <= x

\* &OBV{}
NewOBV == [kind |-> "OBV", Values |-> <<>>, PrePrice |-> 0, fed |-> <<>>]

\* OBV.Update(price, volume)
OBV_Update(obv, price, volume) ==
    IF Len(obv.Values) = 0
    THEN [obv EXCEPT !.PrePrice = price, !.Values = Append(@, volume)]
    ELSE IF volume < obv.PrePrice
    THEN [obv EXCEPT !.Values = Append(@, SliceLast(obv.Values) - volume)]
    ELSE [obv EXCEPT !.Values = Append(@, SliceLast(obv.Values) + volume)]

\* &STOCH{IntervalWindow: {Window: window}}
NewSTOCH(window) ==
    [kind |-> "STOCH", Window |-> window, K |-> <<>>, D |-> <<>>,
     HighValues |-> <<>>, LowValues |-> <<>>, fed |-> <<>>]

\* STOCH.Update that pushes to D once K holds DPeriod values
STOCH_UpdateWarmUp(stoch, high, low, cloze) ==
    LET highs == Append(stoch.HighValues, high)
        lows == Append(stoch.LowValues, low)
        lowest == SliceMin(SliceTail(lows, stoch.Window))
        highest == SliceMax(SliceTail(highs, stoch.Window))
        ks == Append(stoch.K, [num |-> 100 * (cloze - lowest), den |-> highest - lowest])
    IN  [stoch EXCEPT !.HighValues = highs, !.LowValues = lows, !.K = ks,
                      !.D = IF Len(ks) < DPeriod THEN @
                            ELSE Append(@, SliceTail(ks, DPeriod))]

\* STOCH.Update(high, low, cloze): k is 100 * (cloze - lowest) over
\* (highest - lowest), d the mean of the newest DPeriod of K
STOCH_Update(stoch, high, low, cloze) ==
    LET highs == Append(stoch.HighValues, high)
        lows == Append(stoch.LowValues, low)
        lowest == SliceMin(SliceTail(lows, stoch.Window))
        highest == SliceMax(SliceTail(highs, stoch.Window))
        ks == Append(stoch.K, [num |-> 100 * (cloze - lowest), den |-> highest - lowest])
    IN  [stoch EXCEPT !.HighValues = highs, !.LowValues = lows, !.K = ks,
                      !.D = Append(@, SliceTail(ks, DPeriod))]

\* STOCH.LastD(): it tests len(inc.K) and indexes inc.D
STOCH_LastD(stoch) ==
    IF Len(stoch.K) = 0 THEN [panic |-> FALSE, d |-> <<>>]
    ELSE IF Len(stoch.D) = 0 THEN [panic |-> TRUE, d |-> <<>>]
    ELSE [panic |-> FALSE, d |-> stoch.D[Len(stoch.D)]]

\* &CCI{IntervalWindow: {Window: window}}
NewCCI(window) ==
    [kind |-> "CCI", Window |-> window, Input |-> <<>>, TypicalPrice |-> <<>>,
     MA |-> <<>>, Values |-> <<>>, fed |-> <<>>]

\* CCI.Update that cuts TypicalPrice and leaves Input whole
CCI_UpdateCutOne(cci, value) ==
    IF Len(cci.TypicalPrice) = 0
    THEN [cci EXCEPT !.TypicalPrice = Append(@, value), !.Input = Append(@, value)]
    ELSE LET tp0 == Truncate(cci.TypicalPrice)
             in1 == Append(cci.Input, value)
             tp == SliceLast(tp0) - SliceIndex(in1, cci.Window) + value
         IN  [cci EXCEPT !.Input = in1, !.TypicalPrice = Append(tp0, tp)]

\* CCI.Update(value): the typical price is the running sum of the window, a
\* value is [value, ma, the inputs of the window]
CCI_Update(cci, value) ==
    IF Len(cci.TypicalPrice) = 0
    THEN [cci EXCEPT !.TypicalPrice = Append(@, value), !.Input = Append(@, value)]
    ELSE LET cut == Len(cci.TypicalPrice) > MaxNumOfEWMA
             tp0 == IF cut THEN SubSeq(cci.TypicalPrice, MaxNumOfEWMATruncateSize,
                                       Len(cci.TypicalPrice))
                    ELSE cci.TypicalPrice
             in0 == IF cut THEN SubSeq(cci.Input, MaxNumOfEWMATruncateSize,
                                       Len(cci.Input))
                    ELSE cci.Input
             in1 == Append(in0, value)
             tp == SliceLast(tp0) - SliceIndex(in1, cci.Window) + value
             ma == [num |-> tp, den |-> cci.Window]
         IN  IF Len(in1) < cci.Window
             THEN [cci EXCEPT !.Input = in1, !.TypicalPrice = Append(tp0, tp)]
             ELSE [cci EXCEPT !.Input = in1, !.TypicalPrice = Append(tp0, tp),
                              !.MA = Truncate(Append(@, ma)),
                              !.Values = Truncate(Append(@,
                                  [value |-> value, ma |-> ma,
                                   inputs |-> [i \in 1..cci.Window |->
                                                  SliceIndex(in1, i - 1)]]))]

\* a nil *EWMA, and &EWMA{IntervalWindow: ...}
NilEWMA == [nil |-> TRUE, Values |-> <<>>]

NewEWMA == [nil |-> FALSE, Values |-> <<>>]

\* EWMA.Update(value): one value more in its capped history, written as the
\* number smoothed and how many values came before it
EWMA_Update(ewma, value) ==
    [ewma EXCEPT !.Values = Truncate(Append(@, [x |-> value, after |-> Len(@)]))]

\* int((float64(inc.Window)-1.)/2. + 0.5)
LagOf(window) == window \div 2

\* &ZLEMA{IntervalWindow: {Window: window}}; made counts the EWMAs it made
NewZLEMA(window) ==
    [kind |-> "ZLEMA", Window |-> window, data |-> <<>>, zlema |-> NilEWMA,
     lag |-> 0, made |-> 0, fed |-> <<>>]

\* ZLEMA.Length()
ZLEMA_Length(z) == IF z.zlema.nil THEN 0 ELSE Len(z.zlema.Values)

\* ZLEMA.Update(value)
ZLEMA_Update(z, value) ==
    LET anew == z.lag = 0 \/ z.zlema.nil
        ewma == IF anew THEN NewEWMA ELSE z.zlema
        lagNow == IF anew THEN LagOf(z.Window) ELSE z.lag
        dataNow == Truncate(Append(z.data, value))
    IN  [z EXCEPT !.made = IF anew THEN @ + 1 ELSE @,
                  !.lag = lagNow,
                  !.data = dataNow,
                  !.zlema = IF lagNow >= Len(dataNow) THEN ewma
                            ELSE EWMA_Update(ewma,
                                     2 * value - dataNow[Len(dataNow) - lagNow])]

\* no instance is under test
NoSeries == series = [kind |-> "none"]

\* the instance is of this kind and may be given one Update more
Updatable(kind) ==
    /\ series.kind = kind
    /\ Len(series.fed) < MaxUpdates

\* inc.Update(k.Close.Float64(), k.Volume.Float64()) of an OBV
CallOBVUpdate(price, volume) ==
    /\ Updatable("OBV")
    /\ series' = [OBV_Update(series, price, volume) EXCEPT
                     !.fed = Append(@, [price |-> price, volume |-> volume])]
    /\ UNCHANGED nonSeriesVars

\* inc.Update(k.High.Float64(), k.Low.Float64(), k.Close.Float64()) of a STOCH
CallSTOCHUpdate(candle) ==
    /\ Updatable("STOCH")
    /\ series' = [STOCH_Update(series, candle.High, candle.Low, candle.Close) EXCEPT
                     !.fed = Append(@, candle)]
    /\ UNCHANGED nonSeriesVars

\* inc.Update(value) of a CCI
CallCCIUpdate(value) ==
    /\ Updatable("CCI")
    /\ series' = [CCI_Update(series, value) EXCEPT !.fed = Append(@, value)]
    /\ UNCHANGED nonSeriesVars

\* inc.Update(value) of a ZLEMA
CallZLEMAUpdate(value) ==
    /\ Updatable("ZLEMA")
    /\ series' = [ZLEMA_Update(series, value) EXCEPT !.fed = Append(@, value)]
    /\ UNCHANGED nonSeriesVars

(***************************************************************************)
(* The specification of the sync service and the session.                  *)
(***************************************************************************)
\* the memory of a new process and empty tables
SyncFresh ==
    /\ remoteTrades = <<>>
    /\ remoteOrders = <<>>
    /\ trades = <<>>
    /\ orders = <<>>
    /\ pc = "init"
    /\ synced = {}
    /\ ctxDone = FALSE
    /\ ret = "none"
    /\ pending = <<>>
    /\ recvd = <<>>
    /\ ordersC = <<>>
    /\ ordersClosed = FALSE
    /\ errC = <<>>
    /\ prodLeft = <<>>
    /\ Trades = [s \in Symbols |-> <<>>]
    /\ nEvents = 0
    /\ lastEvent = NoRecord
    /\ lastInsert = "none"
    /\ connectedAt = 0
    /\ nRestarts = 0
    /\ call = NoCall
    /\ quiet = [s \in Symbols |-> FALSE]

\* the sync service and the session, not exercised
\* the session before Init makes a store: marketDataStores is empty
NoMarketDataStore ==
    /\ KLineWindows = <<>>
    /\ lastClosedEndTime = <<>>
    /\ accepted = <<>>
    /\ subscribers = <<>>
    /\ lastPrice = 0
    /\ mdPhase = "none"
    /\ warmed = {}
    /\ nHist = <<>>
    /\ nLive = 0
    /\ lastKLine = NoKLine
    /\ emitted = 0

\* the session before Init makes an indicator set: standardIndicatorSets is
\* empty
NoStandardIndicatorSet ==
    /\ indicators = <<>>
    /\ setBound = {}
    /\ setCall = [kind |-> "none", iw |-> [Interval |-> "", Window |-> 0]]
    /\ setRet = NilIndicator

SyncIdle ==
    /\ service = "none"
    /\ exchange = "okex"
    /\ hasDB = FALSE
    /\ tradeScanTime = 1
    /\ SyncFresh

Init ==
    /\ service \in {"trades", "orders"}
    /\ exchange \in IF service = "orders" THEN {"okex"} ELSE ExchangeNames
    /\ hasDB \in IF exchange = "okex" THEN {TRUE} ELSE BOOLEAN
    /\ tradeScanTime \in FallbackTimes
    /\ SyncFresh
    /\ NewLocalActiveOrderBook
    /\ NoStandardIndicatorSet
    /\ NoMarketDataStore
    /\ NoRiskControl
    /\ NoEnvironment
    /\ NoOkex
    /\ NoStopLoss
    /\ NoSeries

Next ==
    \/ \E s \in Symbols : RemoteTrade(s)
    \/ \E s \in Symbols : SyncTradesBegin(s)
    \/ SyncTradesInsert
    \/ Connect
    \/ \E i \in 1..Len(remoteTrades) : TradeUpdate(remoteTrades[i])
    \/ \E s \in Symbols : RemoteOrder(s)
    \/ \E s \in Symbols : SyncOrdersBegin(s)
    \/ ProducerSend
    \/ ProducerFail
    \/ ProducerDone
    \/ SyncOrdersRecv
    \/ SyncOrdersSelect
    \/ SyncOrdersInsert
    \/ Cancel
    \/ Restart

Spec == Init /\ [][Next]_vars

(***************************************************************************)
(* The specification of the active order book: any sequence of Add,        *)
(* Delete and WriteOff, with orders of any ID, side and status.            *)
(***************************************************************************)
InitBook ==
    /\ SyncIdle
    /\ NewLocalActiveOrderBook
    /\ NoStandardIndicatorSet
    /\ NoMarketDataStore
    /\ NoRiskControl
    /\ NoEnvironment
    /\ NoOkex
    /\ NoStopLoss
    /\ NoSeries

NextBook ==
    \/ \E o \in OrderInputs : Add(<<o>>)
    \/ \E o1, o2 \in OrderInputs :
          /\ o1.Side = "BUY" /\ o1.Status = "NEW"
          /\ o2.Side = "SELL" /\ o2.Status = "NEW"
          /\ Add(<<o1, o2>>)
    \/ \E o \in OrderInputs : Delete(o)
    \/ \E o \in OrderInputs : WriteOff(o)

SpecBook == InitBook /\ [][NextBook]_vars

(***************************************************************************)
(* The specification of the standard indicator set: any sequence of        *)
(* accessor calls, with pre-defined keys and others.                       *)
(***************************************************************************)
InitSet ==
    /\ SyncIdle
    /\ NewLocalActiveOrderBook
    /\ NewStandardIndicatorSet
    /\ NewMarketDataStore
    /\ NoRiskControl
    /\ NoEnvironment
    /\ NoOkex
    /\ NoStopLoss
    /\ NoSeries

NextSet ==
    \/ \E iw \in IntervalWindows(RequestedWindows) : SMA(iw)
    \/ \E iw \in IntervalWindows(RequestedWindows) : EWMA(iw)
    \/ \E iw \in IntervalWindows(RequestedWindows) : BOLL(iw)

SpecSet == InitSet /\ [][NextSet]_vars

(***************************************************************************)
(* The specification of the market data store: Init loads the historical   *)
(* candles of each interval, then the stream reports closed candles, new   *)
(* ones and ones the store has seen.                                       *)
(***************************************************************************)
InitMarket ==
    /\ SyncIdle
    /\ NewLocalActiveOrderBook
    /\ NewStandardIndicatorSet
    /\ NewMarketDataStore
    /\ NoRiskControl
    /\ NoEnvironment
    /\ NoOkex
    /\ NoStopLoss
    /\ NoSeries

NextMarket ==
    \/ \E i \in Intervals, n \in 0..MaxCandles : PreWarm(i, n)
    \/ InitReturns
    \/ \E k \in KLines : KLineClosed(k)

SpecMarket == InitMarket /\ [][NextMarket]_vars

(***************************************************************************)
(* The specification of late binding: the store is made with no indicator, *)
(* and one is bound to it at any time of the pre-warm or after.            *)
(***************************************************************************)
InitLate ==
    /\ SyncIdle
    /\ NewLocalActiveOrderBook
    /\ NoStandardIndicatorSet
    /\ NewMarketDataStoreWith({})
    /\ NoRiskControl
    /\ NoEnvironment
    /\ NoOkex
    /\ NoStopLoss
    /\ NoSeries

NextLate ==
    \/ \E i \in Intervals, n \in 0..MaxCandles : PreWarm(i, n)
    \/ InitReturns
    \/ \E k \in KLines : KLineClosed(k)
    \/ \E name \in IndicatorNames : Bind(name)

SpecLate == InitLate /\ [][NextLate]_vars

(***************************************************************************)
(* The specification of the circuit breaker: a strategy makes a risk       *)
(* control, the price indicator moves the mark price, and IsHalted is      *)
(* called on demand.                                                       *)
(***************************************************************************)
InitBreaker ==
    /\ SyncIdle
    /\ NewLocalActiveOrderBook
    /\ NoStandardIndicatorSet
    /\ NoMarketDataStore
    /\ NewCircuitBreakRiskControl
    /\ NoEnvironment
    /\ NoOkex
    /\ NoStopLoss
    /\ NoSeries

NextBreaker ==
    \/ IsHalted
    \/ \E price \in 1..MaxPrice : PriceUpdate(price)

SpecBreaker == InitBreaker /\ [][NextBreaker]_vars

(***************************************************************************)
(* The specification of the Environment: the strategies subscribe, the     *)
(* caller calls Init and Connect, each once and in either order, and the   *)
(* connected streams deliver events.                                       *)
(***************************************************************************)
InitEnv ==
    /\ SyncIdle
    /\ NewLocalActiveOrderBook
    /\ NoStandardIndicatorSet
    /\ NoMarketDataStore
    /\ NoRiskControl
    /\ NewEnvironment
    /\ NoOkex
    /\ NoStopLoss
    /\ NoSeries

NextEnv ==
    \/ \E n \in SessionNames, sub \in Subscriptions : Subscribe(n, sub)
    \/ InitCall
    \/ InitNextSession
    \/ InitStep
    \/ ConnectCall
    \/ ConnectNextSession
    \/ StreamConnect
    \/ \E n \in SessionNames : StreamEvent(n)

SpecEnv == InitEnv /\ [][NextEnv]_vars

(***************************************************************************)
(* The specification of the okex exchange: its methods are called one      *)
(* after the other, a context may be cancelled, and time refills the       *)
(* limiters.                                                               *)
(***************************************************************************)
InitOkex ==
    /\ SyncIdle
    /\ NewLocalActiveOrderBook
    /\ NoStandardIndicatorSet
    /\ NoMarketDataStore
    /\ NoRiskControl
    /\ NoEnvironment
    /\ NewOkex
    /\ NoStopLoss
    /\ NoSeries

NextOkex ==
    \/ \E method \in OkexMethods \ {"CancelOrders"}, done \in BOOLEAN :
          \E arguments \in Arguments(method) : OkexCall(method, arguments, done)
    \/ \E os \in OrderLists, done \in BOOLEAN : CancelOrders(os, done)
    \/ CtxCancel
    \/ Wait
    \/ \E limiter \in {"orderRateLimiter", "marketDataLimiter"} : Refill(limiter)
    \/ Request

SpecOkex == InitOkex /\ [][NextOkex]_vars

(***************************************************************************)
(* The specification of the protection stop loss: after Bind the streams    *)
(* and the trade collector deliver their events in any order.              *)
(***************************************************************************)
InitStopLoss ==
    /\ SyncIdle
    /\ NewLocalActiveOrderBook
    /\ NoStandardIndicatorSet
    /\ NoMarketDataStore
    /\ NoRiskControl
    /\ NoEnvironment
    /\ NoOkex
    /\ BindStopLoss
    /\ NoSeries

NextStopLoss ==
    \/ \E position \in [Base : {-1, 0, 1}, AverageCost : AverageCosts] :
          OnPositionUpdate(position)
    \/ \E order \in [OrderID : OrderIDs, Status : OrderStatuses] : OnOrderUpdate(order)
    \/ \E kline \in [Symbol : Symbols, Interval : Intervals, Close : Prices] :
          \E dust \in BOOLEAN, created \in {0} \cup OrderIDs :
             OnKLineClosed(kline, dust, created)
    \/ \E trade \in [Symbol : Symbols, Price : Prices] : OnMarketTrade(trade)

SpecStopLoss == InitStopLoss /\ [][NextStopLoss]_vars

(***************************************************************************)
(* The specification of the indicators' Update: an instance of one of OBV, *)
(* STOCH, CCI and ZLEMA is made with a window and is updated any number of *)
(* times.                                                                  *)
(***************************************************************************)
InitSeries ==
    /\ SyncIdle
    /\ NewLocalActiveOrderBook
    /\ NoStandardIndicatorSet
    /\ NoMarketDataStore
    /\ NoRiskControl
    /\ NoEnvironment
    /\ NoOkex
    /\ NoStopLoss
    /\ series \in {NewOBV} \cup {NewSTOCH(w) : w \in Windows}
                  \cup {NewCCI(w) : w \in Windows} \cup {NewZLEMA(w) : w \in Windows}

NextSeries ==
    \/ \E price \in {2, 3}, volume \in {1, 2} : CallOBVUpdate(price, volume)
    \/ \E candle \in Candles : CallSTOCHUpdate(candle)
    \/ \E value \in {1, 2} : CallCCIUpdate(value)
    \/ \E value \in {1, 2} : CallZLEMAUpdate(value)

SpecSeries == InitSeries /\ [][NextSeries]_vars

(***************************************************************************)
(* Properties of the sync service and the live trade handlers.             *)
(***************************************************************************)
\* the rows of the table the last sync call wrote to, as they were when the
\* call began (the tables are append-only)
RowsAtCall ==
    SubSeq(IF call.kind = "orders" THEN orders ELSE trades, 1, call.rowsAt)

\* the rows the table has gained since the last sync call began
RowsSinceCall ==
    LET t == IF call.kind = "orders" THEN orders ELSE trades
    IN  SubSeq(t, call.rowsAt + 1, Len(t))

\* the positions of the rows of (ex, symbol)
RowsOf(rows, ex, symbol) ==
    {i \in 1..Len(rows) : rows[i].Exchange = ex /\ rows[i].Symbol = symbol}

SetMax(S) == CHOOSE x \in S : \A y \in S : y <= x

\* C1: no trade ID is held twice by the trade table for one (exchange, symbol).
NoDuplicateTradeRows ==
    \A i, j \in 1..Len(trades) :
        (/\ i # j
         /\ trades[i].Exchange = trades[j].Exchange
         /\ trades[i].Symbol = trades[j].Symbol)
        => trades[i].ID # trades[j].ID

NoGapAfterSync ==
    (/\ nRestarts > 0
     /\ call.kind = "trades"
     /\ ret = "nil"
     /\ pc = "init")
        => \A i \in 1..call.remoteAt :
              (/\ remoteTrades[i].Symbol = call.Symbol
               /\ remoteTrades[i].Time >= call.fallback)
              => \E j \in 1..Len(trades) : trades[j] = remoteTrades[i]

\* C4: the cursor SyncTrades passes to the historical query is the greatest
\* trade ID the table held for (exchange, symbol) when the call began.
CursorIsMaxPersistedID ==
    (call.kind = "trades" /\ call.queried)
        => LET ids == {RowsAtCall[i].ID : i \in RowsOf(RowsAtCall, exchange, call.Symbol)}
           IN  call.LastID = IF ids = {} THEN 0 ELSE SetMax(ids)

\* C5: the query of SyncTrades and SyncOrders starts at the last record of
\* (exchange, symbol) when the table holds one (its ID and its time, the
\* fallback ignored), and at cursor 0 and the caller's fallback when it holds none.
ResumePointChosen ==
    call.queried
        => LET at == RowsOf(RowsAtCall, exchange, call.Symbol)
           IN  IF at = {}
               THEN call.LastID = 0 /\ call.StartTime = call.fallback
               ELSE /\ call.LastID = RowsAtCall[SetMax(at)].ID
                    /\ call.StartTime = RowsAtCall[SetMax(at)].Time

\* C5 happens: a call found a last record whose time is not the fallback.
ResumePointWitness ==
    /\ call.queried
    /\ call.LastID > 0
    /\ call.StartTime # call.fallback
    /\ RowsOf(RowsAtCall, exchange, call.Symbol) # {}
    /\ Len(RowsAtCall) > Cardinality(RowsOf(RowsAtCall, exchange, call.Symbol))

\* C6: SyncOrders does not return nil when the batch producer has reported an
\* error on the error channel.
QueryFailureIsReturned ==
    (call.kind = "orders" /\ ret = "nil") => errC = <<>>

\* a step of the select of SyncOrders, taken with an order in hand
SelectStep == pc = "so.select" /\ pc' # pc /\ nRestarts' = nRestarts

\* C7 as stated: with an order received and an error pending, SyncOrders
\* returns that error and does not insert the order.
ErrorTakesPrecedence ==
    [][(SelectStep /\ errC # <<>>)
          => (pc' = "exit" /\ ret' = Head(errC) /\ orders' = orders)]_vars

\* C7 as amended: with an order received and an error pending, the order is
\* not inserted and SyncOrders returns a non-nil error: the pending error, or,
\* only when the cancellation has fired too, the cancellation error.
ErrorOrCancelTakesPrecedence ==
    [][(SelectStep /\ errC # <<>>)
          => /\ pc' = "exit"
             /\ orders' = orders
             /\ ret' \in {Head(errC), "ctxErr"}
             /\ ret' = "ctxErr" => ctxDone]_vars

\* C7 happens: SyncOrders returned the producer's error with a received order
\* left uninserted.
ErrorPrecedenceWitness ==
    /\ call.kind = "orders"
    /\ pc = "exit"
    /\ ret = "queryErr"
    /\ recvd # <<>>
    /\ ~ctxDone
    /\ Len(orders) = call.rowsAt + Len(recvd) - 1

\* C8: once the cancellation has fired during SyncOrders or SyncTrades, no
\* record is inserted and the call returns the cancellation error.
CancelStopsSync ==
    [][(ctxDone /\ InCall /\ nRestarts' = nRestarts)
          => /\ trades' = trades
             /\ orders' = orders
             /\ pc' \in {"init", "exit"} => ret' = "ctxErr"]_vars

\* C9: when SyncTrades or SyncOrders returns an insert error the call is
\* over, and the table has gained exactly the records that arrived before the
\* failing one, in arrival order.
InsertFailureAborts ==
    ret = "insertErr"
        => /\ pc = "exit"
           /\ recvd # <<>>
           /\ RowsSinceCall = SubSeq(recvd, 1, Len(recvd) - 1)

\* C9 happens: SyncTrades failed on a record with records before and after it.
InsertFailureWitness ==
    /\ call.kind = "trades"
    /\ ret = "insertErr"
    /\ Len(recvd) >= 2
    /\ Len(pending) >= 2

\* C10: every trade-update event appends its trade once to session.Trades of
\* its symbol and leaves the other lists alone, whatever the insert did, and
\* the stream goes on.
LiveTradeAppendedOnce ==
    [][nEvents' = nEvents + 1
          => /\ Trades' = [Trades EXCEPT ![lastEvent'.Symbol] = Append(@, lastEvent')]
             /\ pc' = "streaming"]_vars

\* C10 happens: an event whose insert failed is in session.Trades, after an
\* earlier event.
LiveTradeWitness ==
    /\ pc = "streaming"
    /\ nEvents >= 2
    /\ lastInsert = "failed"
    /\ Trades[lastEvent.Symbol] # <<>>
    /\ Trades[lastEvent.Symbol][Len(Trades[lastEvent.Symbol])] = lastEvent

(***************************************************************************)
(* Properties of the active order book.                                    *)
(***************************************************************************)
\* C18: no OrderID is in the bid mapping and in the ask mapping at once.
BidsAsksDisjoint == DOMAIN Bids \cap DOMAIN Asks = {}

\* C19: WriteOff of a filled sell, with a bid flagged filled in the book,
\* returns true, removes one bid, which was flagged filled, and the ask of the
\* triggering OrderID, and nothing else; the same for a filled buy and the asks.
WriteOffRemovesOnePair ==
    [][\A o \in OrderInputs :
          (bookCall' = "WriteOff" /\ o.Status = "FILLED" /\ WriteOff(o))
            => /\ (o.Side = "SELL" /\ FilledIn(Bids) # {})
                    => /\ bookRet' = "true"
                       /\ \E id \in FilledIn(Bids) :
                             Bids' = SyncOrderMapDelete(Bids, id)
                       /\ Cardinality(DOMAIN Bids') = Cardinality(DOMAIN Bids) - 1
                       /\ Asks' = SyncOrderMapDelete(Asks, o.OrderID)
               /\ (o.Side = "BUY" /\ FilledIn(Asks) # {})
                    => /\ bookRet' = "true"
                       /\ \E id \in FilledIn(Asks) :
                             Asks' = SyncOrderMapDelete(Asks, id)
                       /\ Cardinality(DOMAIN Asks') = Cardinality(DOMAIN Asks) - 1
                       /\ Bids' = SyncOrderMapDelete(Bids, o.OrderID)]_vars

\* C19 happens: a WriteOff returned true and left a second filled bid, an
\* unfilled bid and another ask in place.
WriteOffPairWitness ==
    /\ bookRet = "true"
    /\ FilledIn(Bids) # {}
    /\ DOMAIN Bids \ FilledIn(Bids) # {}
    /\ DOMAIN Asks # {}

\* C20: WriteOff returns false and changes neither mapping when the order is
\* not filled, and when no order of the counter side is flagged filled.
WriteOffFailureFrame ==
    [][\A o \in OrderInputs :
          (/\ bookCall' = "WriteOff"
           /\ \/ o.Status # "FILLED"
              \/ o.Side = "SELL" /\ FilledIn(Bids) = {}
              \/ o.Side = "BUY" /\ FilledIn(Asks) = {}
           /\ WriteOff(o))
            => /\ bookRet' = "false"
               /\ Bids' = Bids
               /\ Asks' = Asks]_vars

\* C20 happens: a WriteOff returned false with a filled ask still in the book
\* and bids of which none is flagged filled.
WriteOffFailureWitness ==
    /\ bookRet = "false"
    /\ FilledIn(Asks) # {}
    /\ DOMAIN Bids # {}
    /\ FilledIn(Bids) = {}

(***************************************************************************)
(* Properties of the standard indicator set.                               *)
(***************************************************************************)
\* C17: every call of SMA, EWMA or BOLL returns a non-nil instance that is
\* bound to the store and is the instance the set holds for the key (so a
\* later call with the key returns the same one).
AccessorReturnsBoundInstance ==
    setCall.kind # "none"
        => /\ setRet # NilIndicator
           /\ setRet \in setBound
           /\ setRet = indicators[setCall.kind][setCall.iw]

(***************************************************************************)
(* The market data store and the indicators bound to it.                   *)
(***************************************************************************)
\* how many window updates of its interval the indicator got in this step
Notified(name) == subscribers'[name].notified - subscribers[name].notified

\* the candle is after the mark of its interval
Newer(k) == k.EndTime > lastClosedEndTime[k.Interval]

\* C11 as stated: every closed candle the stream delivers gives every
\* indicator bound to the candle's interval exactly one window update, and
\* the store emits exactly one
KLineClosedNotifiesOnce ==
    [][\A k \in KLines :
          KLineClosed(k)
            => /\ emitted' = 1
               /\ \A name \in IndicatorNames :
                     Notified(name) = IF k.Interval = IndicatorInterval THEN 1 ELSE 0]_vars

\* C11: a closed candle the stream delivers, handled by the store's handler
\* and then by Init's, gives every indicator bound to its interval exactly one
\* window update when its end time is after the mark, and none otherwise; it
\* never gives two
KLineClosedNotifiesOnceIfNewer ==
    [][\A k \in KLines :
          KLineClosed(k)
            => /\ emitted' = IF Newer(k) THEN 1 ELSE 0
               /\ \A name \in IndicatorNames :
                     Notified(name) =
                        IF Newer(k) /\ k.Interval = IndicatorInterval THEN 1 ELSE 0]_vars

\* a new candle came after a pre-warm of its interval, and went through both
\* handlers: one update
KLineClosedOnceWitness ==
    /\ mdPhase = "live"
    /\ nLive = 1
    /\ emitted = 1
    /\ lastKLine.Interval = IndicatorInterval
    /\ nHist[IndicatorInterval] > 0
    /\ lastKLine.EndTime > nHist[IndicatorInterval]
    /\ subscribers["VIDYA"].notified = nHist[IndicatorInterval] + 1

ColdStart(name, window) ==
    calculateAndUpdate(name, NewIndicatorState(name), window)

\* C13: an indicator that got the candles of its interval one notification
\* at a time holds the value history of an indicator that gets the same
\* candles in one cold-start notification (no candle has left the window)
ColdStartEqualsSteadyState ==
    (/\ mdPhase = "live"
     /\ nHist[IndicatorInterval] <= 1
     /\ KLineWindows[IndicatorInterval] # <<>>
     /\ KLineWindows[IndicatorInterval] = accepted[IndicatorInterval])
      => \A name \in IndicatorNames :
            subscribers[name].Values =
               ColdStart(name, KLineWindows[IndicatorInterval]).Values

\* C14: over any run of window updates each closed candle goes into an
\* indicator's Update at most once
EachKLineFoldedOnce ==
    \A name \in IndicatorNames :
       \A i, j \in DOMAIN subscribers[name].fed :
          i # j => subscribers[name].fed[i] # subscribers[name].fed[j]

\* C15: after any number of updates the value history of every indicator
\* holds at most MaxNumOfEWMA entries, the newest of them last
ValuesWithinCap ==
    \A name \in IndicatorNames :
       Len(subscribers[name].Values) <= MaxNumOfEWMA

Min(a, b) == IF a < b THEN a ELSE b

\* C16: after a pre-warm of N candles of the interval and one new closed
\* candle from the stream every indicator holds min(N + 1, cap) values
PreWarmPlusOneLength ==
    (/\ mdPhase = "live"
     /\ nLive = 1
     /\ lastKLine.Interval = IndicatorInterval
     /\ emitted = 1)
      => \A name \in IndicatorNames :
            Len(subscribers[name].Values) =
               Min(nHist[IndicatorInterval] + 1, MaxNumOfEWMA)

(***************************************************************************)
(* Add and Delete of the active order book.                                *)
(***************************************************************************)
BookNext == [Bids |-> Bids', Asks |-> Asks']

\* the order is on its side after the step, as every Add of it leaves it
HeldNext(o) ==
    CASE o.Side = "BUY" -> o.OrderID \in DOMAIN Bids' /\ Bids'[o.OrderID] = o
      [] o.Side = "SELL" -> o.OrderID \in DOMAIN Asks' /\ Asks'[o.OrderID] = o
      [] OTHER -> TRUE

\* the OrderID is not on the order's side after the step, as every Delete of
\* it leaves it
GoneNext(o) ==
    CASE o.Side = "BUY" -> o.OrderID \notin DOMAIN Bids'
      [] o.Side = "SELL" -> o.OrderID \notin DOMAIN Asks'
      [] OTHER -> TRUE

\* C21: Add of an order whose OrderID is on its side already leaves the number
\* of entries of that side as it was, Delete of an OrderID that is nowhere in
\* the book leaves the book as it was, and a second Add or Delete of the same
\* order changes nothing
AddDeleteIdempotent ==
    [][\A o \in OrderInputs :
          /\ (bookCall' \in {"Add", "AddPresent"} /\ HeldNext(o) /\ Add(<<o>>))
               => /\ o.OrderID \in DOMAIN SideOf(BookNow, o)
                       => Cardinality(DOMAIN SideOf(BookNext, o))
                             = Cardinality(DOMAIN SideOf(BookNow, o))
                  /\ AddAll(BookNext, <<o>>) = BookNext
          /\ (bookCall' \in {"Delete", "DeleteAbsent"} /\ GoneNext(o) /\ Delete(o))
               => /\ o.OrderID \notin DOMAIN Bids \cup DOMAIN Asks
                       => BookNext = BookNow
                  /\ DeleteFrom(BookNext, o) = BookNext]_vars

\* C21 happens: the last call was an Add of an OrderID its side held already,
\* with other orders on both sides
AddPresentWitness ==
    /\ bookCall = "AddPresent"
    /\ Cardinality(DOMAIN Bids) >= 2
    /\ DOMAIN Asks # {}

\* C29: after Delete(o) the OrderID of o is on neither side, whatever the
\* side of o
DeleteRemovesOrderID ==
    [][\A o \in OrderInputs :
          Delete(o) => o.OrderID \notin DOMAIN Bids' \cup DOMAIN Asks']_vars

(***************************************************************************)
(* Properties of the circuit breaker.                                      *)
(***************************************************************************)
\* C22: for a long or a short position IsHalted returns true exactly when
\* base * (price - averageCost) + realized P&L is at or below the threshold,
\* and it returns what Test_IsHalted expects on the cases of the test
HaltedAtOrBelowThreshold ==
    (isHalted # "none" /\ riskControl.position.Base # 0)
      => /\ isHalted = "true" <=> TotalPnL(riskControl) <= riskControl.breakCondition
         /\ \A tc \in Test_IsHalted :
               (/\ riskControl.position = tc.position
                /\ riskControl.price = 30000
                /\ riskControl.TodayPnL = -100
                /\ riskControl.breakCondition = -500)
                 => isHalted = tc.isHalted

\* C22 happens: a short position whose total is exactly the threshold halted
HaltedAtThresholdWitness ==
    /\ isHalted = "true"
    /\ riskControl.position.Base < 0
    /\ riskControl \in SmallControls
    /\ TotalPnL(riskControl) = riskControl.breakCondition

Registered(session, h) ==
    \E i \in DOMAIN session.handlers : session.handlers[i] = h

\* C24: when the market query of a session returns an empty market map,
\* Init returns an error, and that session has no market data store, no
\* trade sync run, no candle fed and no stream handler registered.
EmptyMarketsFailsInit ==
    \A n \in SessionNames :
        sessions[n].markets = "empty" =>
            /\ environ.initRet = "err"
            /\ sessions[n].stores = {}
            /\ sessions[n].synced = {}
            /\ sessions[n].fed = {}
            /\ sessions[n].handlers = <<>>

\* Init failed on the empty market map of a session with subscriptions, after
\* it had initialised the other session
EmptyMarketsWitness ==
    \E n, m \in SessionNames :
        /\ sessions[n].markets = "empty"
        /\ sessions[n].loadedSymbols = Symbols
        /\ sessions[m].stores # {}
        /\ Registered(sessions[m], "OnKLineClosed")

\* Stream.Connect of the session was called
ConnectCalled(session) == session.connected # "no"

\* C25: a subscription reaches the stream only inside Connect; when the
\* stream of a session is connected every subscription recorded for it was
\* sent exactly once; neither Subscribe nor Init sends or connects; and when
\* Init had returned nil before Connect was called, every event a stream
\* delivered found the handlers of Init registered.
SubscriptionsSentInConnect ==
    \A n \in SessionNames :
        /\ \A sub \in Subscriptions :
              /\ sessions[n].sent[sub] <= 1
              /\ sessions[n].sent[sub] = 1 => sub \in sessions[n].Subscriptions
              /\ ConnectCalled(sessions[n]) /\ sub \in sessions[n].Subscriptions
                    => sessions[n].sent[sub] = 1
        /\ environ.pc # "Connect" /\ environ.connectRet = "none" =>
              /\ \A sub \in Subscriptions : sessions[n].sent[sub] = 0
              /\ ~ConnectCalled(sessions[n])
        /\ environ.initFirst => "unhandled" \notin sessions[n].seen

\* Init returned nil, then Connect sent the two subscriptions of a session
\* and connected it, and its stream delivered an event
SubscriptionsSentWitness ==
    \E n \in SessionNames :
        /\ environ.initFirst
        /\ Cardinality(sessions[n].Subscriptions) = 2
        /\ sessions[n].connected = "yes"
        /\ sessions[n].seen = {"handled"}

\* C26: in Init of a session every symbol's trade sync has returned before a
\* candle is fed, the candles of every symbol and interval are fed before
\* the balances are queried, the OnKLineClosed and OnTradeUpdate handlers of
\* Init are registered after the balances, and a step that fails makes Init
\* return the error with none of the later steps taken.
InitStepsInOrder ==
    /\ \A n \in SessionNames :
          /\ sessions[n].fed # {} /\ environ.db =>
                sessions[n].synced = sessions[n].loadedSymbols
          /\ sessions[n].balances =>
                sessions[n].fed = sessions[n].loadedSymbols \X Intervals
          /\ \A h \in InitHandlers :
                Registered(sessions[n], h) => sessions[n].balances
    /\ environ.initRet = "err" =>
          /\ environ.pc # "Init"
          /\ \A i \in DOMAIN environ.todo :
                ~Shows(sessions[environ.session], environ.todo[i])
          /\ \A m \in environ.left :
                sessions[m].markets = "unset" /\ sessions[m].handlers = <<>>

\* Init ran one session to its last handler, and then returned the error of
\* a candle query in the other, whose symbols were synced
InitStepsWitness ==
    \E n, m \in SessionNames :
        /\ environ.db
        /\ sessions[n].loadedSymbols = Symbols
        /\ Registered(sessions[n], "OnTradeUpdate append")
        /\ environ.initRet = "err"
        /\ environ.session = m
        /\ Head(environ.todo).do = "QueryKLines"
        /\ sessions[m].synced = Symbols
        /\ sessions[m].fed # {}

\* C27: every method the limiter documentation lists, and every historical
\* query, has taken capacity from the order rate limiter when it sends its
\* request.
OrderLimiterBeforeRequest ==
    okexCall.requested /\ okexCall.method \in OrderLimiterDoc \cup HistoricalQueries
        => okexCall.acquired = "orderRateLimiter"

\* C28: a call of QueryClosedOrders, QueryTrades, QueryOrderTrades or
\* QueryKLines whose context is cancelled while it waits on its limiter
\* returns an error that carries the context's error, no data, and has sent
\* no request; and only a call whose context is done returns that error.
WaitCancelledReturnsCtxErr ==
    /\ okexCall.pc = "returned" /\ okexCall.waited =>
          /\ okexCall.err.cause = "context canceled"
          /\ ~okexCall.data
          /\ ~okexCall.requested
          /\ okexCall.acquired = "none"
    /\ okexCall.pc = "returned" /\ okexCall.err.cause = "context canceled" =>
          okexCall.ctxDone

\* QueryTrades had found the order limiter empty, waited, and was cancelled
WaitCancelledWitness ==
    /\ okexCall.pc = "returned"
    /\ okexCall.waited
    /\ okexCall.method = "QueryTrades"
    /\ limiters.orderRateLimiter = 0

\* the end times of the candles, in their order
EndTimes(kLines) == [i \in DOMAIN kLines |-> kLines[i].EndTime]

\* the longer of the two periods STOCH wants its window to have
STOCHWarmUp == IF IndicatorWindow > DPeriod THEN IndicatorWindow ELSE DPeriod

\* Bind of an indicator leaves it as it was made, and the store emits nothing
BindIsSilent ==
    \A name \in IndicatorNames :
        Bind(name) => /\ subscribers'[name] = NewIndicatorState(name)
                      /\ emitted' = emitted

\* after its first window update an indicator has consumed the candles the
\* store accepted, in order, each once, while they fit the window's cap
Backfilled(names) ==
    \A name \in DOMAIN subscribers \cap names :
        (/\ subscribers[name].notified = 1
         /\ Len(accepted[IndicatorInterval]) <= MaxNumOfKLines)
           => subscribers[name].fed = EndTimes(accepted[IndicatorInterval])

\* a STOCH has consumed nothing after a first window update that was shorter
\* than its periods
STOCHWaits ==
    ("STOCH" \in DOMAIN subscribers /\ subscribers["STOCH"].notified = 1
       /\ Len(accepted[IndicatorInterval]) < STOCHWarmUp)
        => subscribers["STOCH"].fed = <<>>

EndsTrackedOrder(order) ==
    /\ stopLoss.stopLossOrder # 0
    /\ order.OrderID = stopLoss.stopLossOrder
    /\ order.Status \in {"FILLED", "CANCELED"}

\* C31: an order update of the tracked stop order that reports it filled or
\* cancelled clears the tracked order and the stop-loss price; every other
\* order update leaves both as they were.
OrderUpdateClearsTracked ==
    [][\A order \in [OrderID : OrderIDs, Status : OrderStatuses] :
          (slCall'.event = "OrderUpdate" /\ OnOrderUpdate(order))
            => IF EndsTrackedOrder(order)
               THEN stopLoss'.stopLossOrder = 0 /\ stopLoss'.stopLossPrice = 0
               ELSE stopLoss' = stopLoss]_vars

\* an order update with another OrderID reported an order filled while a stop
\* order was tracked, and the stop order is still tracked
OrderUpdateOtherWitness ==
    /\ slCall.event = "OrderUpdate"
    /\ slCall.Status = "FILLED"
    /\ stopLoss.stopLossOrder # 0
    /\ stopLoss.stopLossOrder # slCall.OrderID
    /\ stopLoss.stopLossPrice # 0

\* C34: with a StopLossRatio other than one, a stop order is tracked only
\* while the stop-loss price is not zero.
TrackedOrderHasPrice ==
    stopLoss.StopLossRatio # one /\ stopLoss.stopLossOrder # 0
        => stopLoss.stopLossPrice # 0

\* a stop order was placed and tracked, and the position was closed after
TrackedOrderWitness ==
    /\ stopLoss.StopLossRatio # one
    /\ stopLoss.PlaceStopOrder
    /\ slCall.event = "PositionUpdate"
    /\ IsShort(slPosition)
    /\ stopLoss.stopLossOrder # 0

\* C35: with PlaceStopOrder set, no market trade and no closed candle makes
\* the protection call ClosePosition.
NoClosePositionWithStopOrder ==
    stopLoss.PlaceStopOrder => ~slCall.ClosePosition

\* C36: a stop-loss price that is not zero does not change in the handling of
\* a closed candle or of a market trade; it changes only to zero, on the
\* update of a closed position or on the update of the tracked stop order
\* that reports it filled or cancelled.
StopLossPriceKept ==
    [][stopLoss.stopLossPrice # 0 /\ stopLoss'.stopLossPrice # stopLoss.stopLossPrice
          => /\ stopLoss'.stopLossPrice = 0
             /\ \/ slCall'.event = "PositionUpdate" /\ IsClosed(slPosition')
                \/ /\ slCall'.event = "OrderUpdate"
                   /\ slCall'.OrderID = stopLoss.stopLossOrder
                   /\ stopLoss.stopLossOrder # 0
                   /\ slCall'.Status \in {"FILLED", "CANCELED"}]_vars

\* the price was set for one average cost, the position then changed to
\* another, and a closed candle below the new activation price left the
\* price as it was
StopLossPriceKeptWitness ==
    /\ slCall.event = "KLineClosed"
    /\ IsShort(slPosition)
    /\ stopLoss.stopLossPrice # 0
    /\ stopLoss.StopLossRatio # one
    /\ stopLoss.stopLossPrice # Mul(slPosition.AverageCost, one - stopLoss.StopLossRatio)

\* C37: a call of CancelOrders with an order without a symbol returns
\* ErrSymbolRequired and sends no request; a call with no order returns nil
\* and sends no request.
CancelOrdersAllOrNothing ==
    (okexCall.method = "CancelOrders" /\ okexCall.pc = "returned") =>
        /\ (\E i \in DOMAIN okexCall.orders : okexCall.orders[i] = "")
              => okexCall.err = [text |-> "", cause |-> "no symbol"]
                 /\ ~okexCall.requested
        /\ okexCall.orders = <<>>
              => okexCall.err = NoError /\ ~okexCall.requested

\* CancelOrders returned for an order with a symbol followed by one without
CancelOrdersWitness ==
    /\ okexCall.method = "CancelOrders"
    /\ okexCall.pc = "returned"
    /\ okexCall.orders = <<"BTCUSDT", "">>

\* the indicators whose calculateAndUpdate passes over the candles that are
\* not after inc.EndTime
EndTimeGuarded == {"RMA", "ATR", "OBV", "STOCH"}

\* the windows of the indicators' interval that the store has handed out and
\* may hand out again: the current one and its older beginnings
DeliveredWindows ==
    {SubSeq(KLineWindows[IndicatorInterval], 1, n) :
        n \in 1..Len(KLineWindows[IndicatorInterval])}

\* the histories an Update appends to
History(st) == <<st.Values, st.input, st.aux, st.counter>>

\* window holds no candle after the recorded end time of st
NothingNewer(st, window) ==
    \A i \in 1..Len(window) : window[i].EndTime <= st.EndTime

\* C33: for RMA, ATR, OBV and STOCH a window notification with no candle
\* after the recorded EndTime appends no value, and the same window handed
\* over twice leaves the histories as handing it over once does
SameWindowAppendsNothing ==
    \A name \in EndTimeGuarded, window \in DeliveredWindows :
        LET st == subscribers[name]
            once == handleKLineWindowUpdate(name, st, IndicatorInterval, window)
            twice == handleKLineWindowUpdate(name, once, IndicatorInterval, window)
        IN  /\ NothingNewer(st, window) => History(once) = History(st)
            /\ History(twice) = History(once)

\* C33 witness: each of the four has values, and the current window, of two
\* candles or more, holds nothing after its recorded EndTime
SameWindowWitness ==
    /\ Len(KLineWindows[IndicatorInterval]) >= 2
    /\ \A name \in EndTimeGuarded :
          /\ Len(subscribers[name].fed) >= 2
          /\ Len(subscribers[name].Values) >= 1
          /\ subscribers[name].EndTime # 0
          /\ NothingNewer(subscribers[name], KLineWindows[IndicatorInterval])

\* C32: after the first update, an OBV update adds the candle's volume to the
\* running total when the close is above the previous candle's close, and
\* subtracts it when the close is below
OBVFollowsClose ==
    series.kind = "OBV" =>
        \A i \in 2..Len(series.fed) :
            /\ series.fed[i].price > series.fed[i - 1].price =>
                  series.Values[i] = series.Values[i - 1] + series.fed[i].volume
            /\ series.fed[i].price < series.fed[i - 1].price =>
                  series.Values[i] = series.Values[i - 1] - series.fed[i].volume

\* C38: for every Window >= 1 a ZLEMA makes its EWMA once, and after n
\* updates it holds max(0, n - lag) values while that is within the cap
ZLEMAMadeOnce ==
    series.kind = "ZLEMA" /\ Len(series.fed) >= 1 =>
        LET n == Len(series.fed)
            held == IF n > LagOf(series.Window) THEN n - LagOf(series.Window) ELSE 0
        IN  /\ series.made = 1
            /\ held <= MaxNumOfEWMA => ZLEMA_Length(series) = held

\* C39: after any sequence of STOCH.Update calls K, D, HighValues and
\* LowValues have one entry for each call, and LastD does not index D out of
\* range
STOCHSlicesSameLength ==
    series.kind = "STOCH" =>
        /\ Len(series.K) = Len(series.fed)
        /\ Len(series.D) = Len(series.fed)
        /\ Len(series.HighValues) = Len(series.fed)
        /\ Len(series.LowValues) = Len(series.fed)
        /\ ~STOCH_LastD(series).panic

\* C39 witness: a STOCH updated fewer times than DPeriod, whose D has an
\* entry for each update all the same
STOCHSlicesWitness ==
    /\ series.kind = "STOCH"
    /\ Len(series.fed) = DPeriod - 1
    /\ Len(series.D) = DPeriod - 1

\* the sum of the numbers of a sequence
RECURSIVE SliceSum(_)
SliceSum(xs) == IF xs = <<>> THEN 0 ELSE Head(xs) + SliceSum(Tail(xs))

\* C40: after any sequence of CCI.Update calls Input and TypicalPrice have
\* the same length, and the newest typical price is the sum of the newest
\* min(n, Window) inputs, n the number of calls
CCITypicalPriceIsWindowSum ==
    series.kind = "CCI" /\ Len(series.fed) >= 1 =>
        /\ Len(series.Input) = Len(series.TypicalPrice)
        /\ SliceLast(series.TypicalPrice) =
              SliceSum(SliceTail(series.fed, series.Window))

\* C40 witness: Input and TypicalPrice were cut, and the window holds inputs
\* that differ
CCITruncatedWitness ==
    /\ series.kind = "CCI"
    /\ series.Window >= 2
    /\ Len(series.fed) > Len(series.Input)
    /\ SliceIndex(series.fed, 0) # SliceIndex(series.fed, 1)

====
